---------------------------- MODULE Spec2Model ----------------------------
(***************************************************************************)
(* A model of the BehavePlus equation calculator (EqCalc):                 *)
(*   - the reconfiguration engine of xeqcalcreconfig.cpp, which sets each  *)
(*     EqFun's m_active flag and each EqVar's m_isUserInput,               *)
(*     m_isUserOutput and m_isConstant masks from the property dictionary; *)
(*   - the two-fuel-model blend EqCalc::FuelBedWeighted of xeqcalc.cpp.    *)
(*                                                                         *)
(* A configuration (PropertyDict) is the set of the boolean properties     *)
(* that are true; prop->boolean( "x" ) is "x" \in prop.  Functions and     *)
(* variables are named by the strings of the source.  Real numbers are     *)
(* exact rationals <<numerator, denominator>>.                             *)
(***************************************************************************)
EXTENDS Integers, Sequences, FiniteSets, TLC

VARIABLES
    prop,           \* m_eqTree->m_propDict: the set of true boolean properties
    active,         \* { f : f->m_active }
    isUserInput,    \* { v : v->m_isUserInput }
    isUserOutput,   \* { v : v->m_isUserOutput }
    isConstant,     \* { v : v->m_isConstant }
    nativeValue,    \* v->m_nativeValue of the variables written so far
    activeItem,     \* active item index of the discrete variables written so far
    label,          \* label suffix set by EqTree::setLabel
    pc,             \* position inside reconfigure(): "idle" or the next module procedure
    calls,          \* module procedures run by the current/last reconfigure()
    nReconfigs,     \* number of reconfigure() calls started
    bw,             \* locals and position of EqCalc::FuelBedWeighted
    sim,            \* results of the ContainSim run by the last containment function
    fbl             \* arguments of the last call of FBL_SurfaceFireForwardSpreadRate

graphVars == <<active, isUserInput, isUserOutput, isConstant, nativeValue, activeItem, label>>
vars == <<prop, active, isUserInput, isUserOutput, isConstant, nativeValue, activeItem,
          label, pc, calls, nReconfigs, bw, sim, fbl>>

-----------------------------------------------------------------------------
(* Real numbers as normalised rationals *)

RECURSIVE Gcd(_, _)
Gcd(a, b) == IF b = 0 THEN a ELSE Gcd(b, a % b)

Abs(n) == IF n < 0 THEN -n ELSE n

Real(n, d) ==
    LET s == IF d < 0 THEN -1 ELSE 1
        k == Gcd(Abs(n), Abs(d))
    IN  <<(s * n) \div k, (s * d) \div k>>

\* IEEE results the blend can produce from non-negative operands
Infinity == <<1, 0>>
NaN == <<0, 0>>
Zero == <<0, 1>>
One == <<1, 1>>

IsNaN(a) == a = NaN
IsInf(a) == a = Infinity
IsZero(a) == a = Zero

RAdd(a, b) ==
    IF IsNaN(a) \/ IsNaN(b) THEN NaN
    ELSE IF IsInf(a) \/ IsInf(b) THEN Infinity
    ELSE LET g == Gcd(a[2], b[2])
         IN  Real(a[1] * (b[2] \div g) + b[1] * (a[2] \div g), (a[2] \div g) * b[2])

\* a - b for finite a, b
RSub(a, b) ==
    LET g == Gcd(a[2], b[2])
    IN  Real(a[1] * (b[2] \div g) - b[1] * (a[2] \div g), (a[2] \div g) * b[2])

RMul(a, b) ==
    IF IsNaN(a) \/ IsNaN(b) THEN NaN
    ELSE IF IsInf(a) \/ IsInf(b)
         THEN (IF IsZero(a) \/ IsZero(b) THEN NaN ELSE Infinity)
    ELSE LET g == Gcd(Abs(a[1]), b[2])
             h == Gcd(Abs(b[1]), a[2])
         IN  Real((a[1] \div g) * (b[1] \div h), (a[2] \div h) * (b[2] \div g))

RDiv(a, b) ==
    IF IsNaN(a) \/ IsNaN(b) THEN NaN
    ELSE IF IsInf(b) THEN (IF IsInf(a) THEN NaN ELSE Zero)
    ELSE IF IsZero(b) THEN (IF IsZero(a) THEN NaN ELSE Infinity)
    ELSE IF IsInf(a) THEN Infinity
    ELSE LET g == Gcd(Abs(a[1]), Abs(b[1]))
             h == Gcd(a[2], b[2])
         IN  Real((a[1] \div g) * (b[2] \div h), (a[2] \div h) * (b[1] \div g))

\* a > b; false when either is NaN
RGt(a, b) ==
    /\ ~IsNaN(a) /\ ~IsNaN(b)
    /\ IF IsInf(a) THEN ~IsInf(b)
       ELSE IF IsInf(b) THEN FALSE
       ELSE LET h == Gcd(a[2], b[2])
            IN  a[1] * (b[2] \div h) > b[1] * (a[2] \div h)

RLt(a, b) == RGt(b, a)

-----------------------------------------------------------------------------
(* The graph as a record, and the assignments the procedures make on it *)

Graph == [active |-> active, isUserInput |-> isUserInput, isUserOutput |-> isUserOutput,
          isConstant |-> isConstant, nativeValue |-> nativeValue,
          activeItem |-> activeItem, label |-> label]

EmptyMap == [x \in {} |-> 0]

FreshGraph == [active |-> {}, isUserInput |-> {}, isUserOutput |-> {}, isConstant |-> {},
               nativeValue |-> EmptyMap, activeItem |-> EmptyMap, label |-> EmptyMap]

Put(m, k, x) == [y \in (DOMAIN m) \cup {k} |-> IF y = k THEN x ELSE m[y]]

boolean(p, name) == name \in p

Activate(g, fs)   == [g EXCEPT !.active = @ \cup fs]
Deactivate(g, fs) == [g EXCEPT !.active = @ \ fs]
SetActive(g, f, b) == IF b THEN Activate(g, {f}) ELSE Deactivate(g, {f})

SetUserInput(g, v, b) ==
    [g EXCEPT !.isUserInput = IF b THEN @ \cup {v} ELSE @ \ {v}]
SetUserOutput(g, v, b) ==
    [g EXCEPT !.isUserOutput = IF b THEN @ \cup {v} ELSE @ \ {v}]
SetConstant(g, v, b) ==
    [g EXCEPT !.isConstant = IF b THEN @ \cup {v} ELSE @ \ {v}]

\* v->m_isUserInput = true; v->m_isUserOutput = true; for every v of vs
SetInputOutput(g, vs) ==
    [g EXCEPT !.isUserInput = @ \cup vs, !.isUserOutput = @ \cup vs]

\* v->m_isUserOutput = prop->boolean( name ) for every <<v, name>> of pairs
OutputsFrom(g, p, pairs) ==
    [g EXCEPT !.isUserOutput =
        (@ \ {q[1] : q \in pairs}) \cup {q[1] : q \in {r \in pairs : boolean(p, r[2])}}]

update(g, v, x)     == [g EXCEPT !.nativeValue = Put(@, v, x)]
updateItem(g, v, i) == [g EXCEPT !.activeItem = Put(@, v, i)]
setLabel(g, v, s)   == [g EXCEPT !.label = Put(@, v, s)]

-----------------------------------------------------------------------------
(* EqCalc::reconfigureDocumentation *)

reconfigureDocumentation(g, p) ==
    LET g1 == IF boolean(p, "docDescriptionActive")
              THEN SetInputOutput(g, {"vDocDescription"}) ELSE g
        g2 == IF boolean(p, "docRxActive")
              THEN SetInputOutput(g1, {"vDocRxAdminUnit", "vDocRxName", "vDocRxPreparedBy"})
              ELSE g1
        g3 == IF boolean(p, "docFireActive")
              THEN SetInputOutput(g2, {"vDocFireAnalyst", "vDocFireName", "vDocFirePeriod"})
              ELSE g2
        g4 == IF boolean(p, "docTrainingActive")
              THEN SetInputOutput(g3, {"vDocTrainingCourse", "vDocTrainingExercise",
                                       "vDocTrainingTrainee"})
              ELSE g3
    IN  g4

-----------------------------------------------------------------------------
(* EqCalc::reconfigureContainModule *)

ContainOutputs ==
    { <<"vContainLine", "containCalcLine">>,
      <<"vContainResourcesUsed", "containCalcResourcesUsed">>,
      <<"vContainSize", "containCalcSize">>,
      <<"vContainStatus", "containCalcStatus">>,
      <<"vContainTime", "containCalcTime">>,
      <<"vContainCost", "containCalcCost">>,
      <<"vContainDiagram", "containCalcDiagram">>,
      <<"vContainAttackPerimeter", "containCalcAttackPerimeter">>,
      <<"vContainAttackSize", "containCalcAttackSize">> }

reconfigureContainModuleBody(g, p) ==
    LET g1 == SetActive(g, "fContainFF", boolean(p, "containConfResourcesMultiple"))
        g2 == SetActive(g1, "fContainFFSingle", boolean(p, "containConfResourcesSingle"))
        g3 == SetConstant(g2, "vContainResourceName", boolean(p, "containConfResourcesSingle"))
        g4 == IF boolean(p, "containConfLimitDistOn")
              THEN SetUserInput(SetConstant(g3, "vContainLimitDist", FALSE),
                                "vContainLimitDist", TRUE)
              ELSE SetUserInput(SetConstant(g3, "vContainLimitDist", TRUE),
                                "vContainLimitDist", FALSE)
        g5 == OutputsFrom(g4, p, ContainOutputs)
        noCost == "vContainCost" \notin g5.isUserOutput
        g6 == SetConstant(SetConstant(g5, "vContainResourceBaseCost", noCost),
                          "vContainResourceHourCost", noCost)
        g7 == IF boolean(p, "surfaceModuleActive")
              THEN Activate(g6, {"fContainFFReportSpread", "fContainFFReportRatio"})
              ELSE g6
        g8 == IF boolean(p, "sizeModuleActive")
              THEN Activate(g7, {"fContainFFReportSpread", "fContainFFReportRatio",
                                 "fContainFFReportSize"})
              ELSE g7
    IN  Activate(g8, {"fContainFFReportSpread"})

reconfigureContainModule(g, p) ==
    IF ~boolean(p, "containModuleActive") THEN g
    ELSE reconfigureContainModuleBody(g, p)

-----------------------------------------------------------------------------
(* EqCalc::reconfigureCrownModule *)

CrownAlwaysOn ==
    { "fCrownFireActiveCrown", "fCrownFireActiveRatio", "fCrownFireArea",
      "fCrownFireCritCrownSpreadRate", "fCrownFireCritSurfFireInt",
      "fCrownFireCritSurfFlameLeng", "fCrownFireLengthToWidth", "fCrownFirePerimeter",
      "fCrownFireSpreadDist", "fCrownFireSpreadMapDist", "fCrownFireSpreadRate",
      "fCrownFireTransToCrown", "fCrownFireType", "fCrownFireFlameLeng",
      "fCrownFireFuelLoad", "fCrownFireHeatPerUnitArea", "fCrownFireHeatPerUnitAreaCanopy",
      "fCrownFireLineInt", "fCrownFirePowerOfFire", "fCrownFirePowerOfWind",
      "fCrownFirePowerRatio", "fCrownFireWindDriven" }

CrownOutputs ==
    { <<"vCrownFireActiveCrown", "crownCalcActiveCrown">>,
      <<"vCrownFireActiveRatio", "crownCalcActiveRatio">>,
      <<"vCrownFireArea", "crownCalcFireArea">>,
      <<"vCrownFireCritCrownSpreadRate", "crownCalcCriticalCrownSpreadRate">>,
      <<"vCrownFireCritSurfFireInt", "crownCalcCriticalSurfaceIntensity">>,
      <<"vCrownFireCritSurfFlameLeng", "crownCalcCriticalSurfaceFlameLeng">>,
      <<"vCrownFireFlameLeng", "crownCalcFlameLeng">>,
      <<"vCrownFireFuelLoad", "crownCalcFuelLoad">>,
      <<"vCrownFireHeatPerUnitArea", "crownCalcHeatPerUnitArea">>,
      <<"vCrownFireHeatPerUnitAreaCanopy", "crownCalcHeatPerUnitAreaCanopy">>,
      <<"vCrownFireLengthToWidth", "crownCalcFireLengthToWidth">>,
      <<"vCrownFireLineInt", "crownCalcFireLineInt">>,
      <<"vCrownFirePerimeter", "crownCalcFirePerimeter">>,
      <<"vCrownFirePowerOfFire", "crownCalcPowerOfFire">>,
      <<"vCrownFirePowerOfWind", "crownCalcPowerOfWind">>,
      <<"vCrownFirePowerRatio", "crownCalcPowerRatio">>,
      <<"vCrownFireSpreadDist", "crownCalcCrownSpreadDist">>,
      <<"vCrownFireSpreadRate", "crownCalcCrownSpreadRate">>,
      <<"vCrownFireTransRatio", "crownCalcTransitionRatio">>,
      <<"vCrownFireTransToCrown", "crownCalcTransitionToCrown">>,
      <<"vCrownFireType", "crownCalcCrownFireType">>,
      <<"vCrownFireWindDriven", "crownCalcWindDriven">> }

reconfigureCrownModuleBody(g, p) ==
    LET g1 == Deactivate(Activate(g, CrownAlwaysOn),
                         {"fCrownFireTransRatioFromFireIntAtVector"})
        \* linked to the Surface Module: both branches activate the same function
        g2 == IF boolean(p, "surfaceModuleActive")
              THEN Activate(g1, {"fCrownFireTransRatioFromFireIntAtVector"})
              ELSE LET h1 == IF boolean(p, "crownConfUseFlameLeng")
                             THEN Activate(g1, {"fCrownFireTransRatioFromFlameLengAtVector"})
                             ELSE Activate(g1, {"fCrownFireTransRatioFromFireIntAtVector"})
                   IN  IF boolean(p, "surfaceConfWindSpeedAt10M")
                          \/ boolean(p, "surfaceConfWindSpeedAt10MCalc")
                       THEN Activate(h1, {"fWindSpeedAt20Ft"})
                       ELSE h1
        g3 == OutputsFrom(g2, p, CrownOutputs)
    IN  IF boolean(p, "mapCalcDist")
        THEN OutputsFrom(Activate(g3, {"fMapScale"}), p,
                         {<<"vCrownFireSpreadMapDist", "crownCalcCrownSpreadDist">>})
        ELSE g3

\* variant of reconfigureCrownModule that lacks the early return
reconfigureCrownModuleNoReturn(g, p) == reconfigureCrownModuleBody(g, p)

reconfigureCrownModule(g, p) ==
    IF ~boolean(p, "crownModuleActive") THEN g
    ELSE reconfigureCrownModuleBody(g, p)

-----------------------------------------------------------------------------
(* EqCalc::reconfigureIgnitionModule *)

reconfigureIgnitionModuleBody(g, p) ==
    LET g1 == Activate(g, {"fIgnitionFirebrandProb", "fIgnitionLightningProb",
                           "fSurfaceFuelTemp"})
        g2 == OutputsFrom(g1, p,
                { <<"vIgnitionFirebrandProb", "ignitionCalcIgnitionFirebrandProb">>,
                  <<"vIgnitionLightningProb", "ignitionCalcIgnitionLightningProb">>,
                  <<"vSurfaceFuelTemp", "ignitionCalcFuelTemp">> })
    IN  IF boolean(p, "surfaceModuleActive")
        THEN Activate(g2, {"fIgnitionFirebrandFuelMoisFromDead1Hr",
                           "fIgnitionLightningFuelMoisFromDead100Hr"})
        ELSE g2

reconfigureIgnitionModule(g, p) ==
    IF ~boolean(p, "ignitionModuleActive") THEN g
    ELSE reconfigureIgnitionModuleBody(g, p)

-----------------------------------------------------------------------------
(* EqCalc::reconfigureMortalityModule *)

\* the crown base height function switched on beside the crown ratio function
TreeCrownBaseHtOn(g) == Activate(g, {"fTreeCrownBaseHt"})

\* fTreeCrownBaseHt->m_active = false: "prevent circular dependency with
\* fTreeCrownRatio -> vTreeCrownRatio"
TreeCrownBaseHtOff(g) == Deactivate(g, {"fTreeCrownBaseHt"})

reconfigureMortalityModuleBody(g, p) ==
    LET g1 == TreeCrownBaseHtOff(g)
        g2 == Activate(g1, {"fTreeCrownVolScorchedAtVector", "fTreeMortalityCountAtVector"})
        g3 == Deactivate(g2, {"fTreeMortalityRateFofemAtVector",
                              "fTreeMortalityRateFofem2AtVector"})
        g4 == Activate(g3, {"fTreeMortalityRateFofemHoodAtVector"})
        g5 == IF boolean(p, "crownModuleActive")
              THEN Activate(g4, {"fTreeCrownRatio"}) ELSE g4
        g6 == Activate(g5, {"fTreeMortalityRateFofemHoodAtVector", "fTreeBarkThicknessFofem"})
        g7 == OutputsFrom(g6, p,
                { <<"vTreeBarkThickness", "mortalityCalcBarkThickness">>,
                  <<"vTreeCrownLengScorchedAtVector", "mortalityCalcTreeCrownLengScorched">>,
                  <<"vTreeCrownVolScorchedAtVector", "mortalityCalcTreeCrownVolScorched">>,
                  <<"vTreeMortalityCountAtVector", "mortalityCalcTreeMortalityCount">>,
                  <<"vTreeMortalityRateAtVector", "mortalityCalcTreeMortalityRate">> })
    IN  IF boolean(p, "surfaceModuleActive") /\ ~boolean(p, "scorchModuleActive")
        THEN Activate(g7, {"fSurfaceFireScorchHtFromFliAtVector"})
        ELSE g7

reconfigureMortalityModule(g, p) ==
    IF ~boolean(p, "mortalityModuleActive") THEN g
    ELSE reconfigureMortalityModuleBody(g, p)

-----------------------------------------------------------------------------
(* EqCalc::reconfigureSafetyModule *)

\* the radius function activated without the separation distance it reads
SafetyRequiredWriterOnly(v) ==
    IF v = "vSafetyZoneSepDist" THEN {"fSafetyZoneSepDist"} ELSE {"fSafetyZoneRadius"}

\* "Activate functions required by the output variables"
SafetyRequired(v) ==
    IF v = "vSafetyZoneSepDist" THEN {"fSafetyZoneSepDist"}
    ELSE {"fSafetyZoneSepDist", "fSafetyZoneRadius"}

reconfigureSafetyModuleBody(g, p) ==
    LET g1 == SetUserOutput(g, "vSafetyZoneRadius", boolean(p, "safetyCalcRadius"))
        g2 == IF boolean(p, "safetyCalcRadius")
              THEN Activate(g1, SafetyRequired("vSafetyZoneRadius")) ELSE g1
        g3 == SetUserOutput(g2, "vSafetyZoneSepDist", boolean(p, "safetyCalcSepDist"))
        g4 == IF boolean(p, "safetyCalcSepDist")
              THEN Activate(g3, SafetyRequired("vSafetyZoneSepDist")) ELSE g3
        g5 == SetUserOutput(g4, "vSafetyZoneSize", boolean(p, "safetyCalcSize"))
        g6 == IF boolean(p, "safetyCalcSize")
              THEN Activate(g5, SafetyRequired("vSafetyZoneSize")) ELSE g5
    IN  IF boolean(p, "surfaceModuleActive")
        THEN SetUserInput(Activate(g6, {"fSurfaceFireFlameLengAtHead"}),
                          "vSurfaceFireFlameLengAtHead", FALSE)
        ELSE g6

reconfigureSafetyModule(g, p) ==
    IF ~boolean(p, "safetyModuleActive") THEN g
    ELSE reconfigureSafetyModuleBody(g, p)

-----------------------------------------------------------------------------
(* EqCalc::reconfigureScorchModule *)

\* the Scorch procedure returning without applying the wind rules
ScorchNoWindRules(g, p) == g

\* "Apply SURFACE wind rules even tho SURFACE is not active"
ScorchWindRules(g, p) ==
    LET midflameOut == {<<"vWindSpeedAtMidflame", "surfaceCalcWindSpeedAtMidflame">>}
    IN  IF boolean(p, "surfaceConfWindSpeedAtMidflame") THEN
            updateItem(SetConstant(update(SetConstant(g, "vWindAdjFactor", TRUE),
                                          "vWindAdjFactor", Real(1, 1)),
                                   "vWindAdjMethod", TRUE),
                       "vWindAdjMethod", 2)
        ELSE IF boolean(p, "surfaceConfWindSpeedAt20Ft") THEN
            updateItem(SetConstant(
                OutputsFrom(Deactivate(Activate(g, {"fWindSpeedAtMidflame"}),
                                       {"fWindAdjFactor"}), p, midflameOut),
                "vWindAdjMethod", TRUE), "vWindAdjMethod", 2)
        ELSE IF boolean(p, "surfaceConfWindSpeedAt20FtCalc") THEN
            updateItem(SetConstant(
                OutputsFrom(Activate(g, {"fWindSpeedAtMidflame", "fWindAdjFactor"}),
                            p, midflameOut),
                "vWindAdjMethod", FALSE), "vWindAdjMethod", 2)
        ELSE IF boolean(p, "surfaceConfWindSpeedAt10M") THEN
            updateItem(SetConstant(
                OutputsFrom(Deactivate(Activate(g, {"fWindSpeedAt20Ft", "fWindSpeedAtMidflame"}),
                                       {"fWindAdjFactor"}), p, midflameOut),
                "vWindAdjMethod", TRUE), "vWindAdjMethod", 2)
        ELSE IF boolean(p, "surfaceConfWindSpeedAt10MCalc") THEN
            updateItem(SetConstant(
                OutputsFrom(Activate(g, {"fWindSpeedAt20Ft", "fWindSpeedAtMidflame",
                                         "fWindAdjFactor"}), p, midflameOut),
                "vWindAdjMethod", FALSE), "vWindAdjMethod", 2)
        ELSE g

reconfigureScorchModuleBody(g, p) ==
    IF boolean(p, "surfaceModuleActive")
    THEN SetUserOutput(Activate(g, {"fSurfaceFireScorchHtFromFliAtVector"}),
                       "vSurfaceFireScorchHtAtVector", TRUE)
    ELSE LET g1 == Deactivate(g, {"fWindSpeedAt20Ft", "fWindSpeedAtMidflame",
                                  "fWindAdjFactor"})
             g2 == SetUserOutput(g1, "vSurfaceFireScorchHtAtVector", TRUE)
             g3 == IF boolean(p, "scorchConfUseFlameLeng")
                   THEN Activate(g2, {"fSurfaceFireScorchHtFromFlameLengAtVector"})
                   ELSE Activate(g2, {"fSurfaceFireScorchHtFromFliAtVector"})
         IN  ScorchWindRules(g3, p)

reconfigureScorchModule(g, p) ==
    IF ~boolean(p, "scorchModuleActive") \/ ~boolean(p, "scorchCalcScorchHt") THEN g
    ELSE reconfigureScorchModuleBody(g, p)

-----------------------------------------------------------------------------
(* EqCalc::reconfigureSizeModule *)

SizeAlwaysOn ==
    { "fSurfaceFireArea", "fSurfaceFireDistAtBack", "fSurfaceFireDistAtHead",
      "fSurfaceFireEccentricity", "fSurfaceFireLengDist", "fSurfaceFireLengMapDist",
      "fSurfaceFireLengthToWidth", "fSurfaceFireMapDistAtBack", "fSurfaceFireMapDistAtHead",
      "fSurfaceFirePerimeter", "fSurfaceFireShapeDiagram", "fSurfaceFireSpreadAtBack",
      "fSurfaceFireWidthDist", "fSurfaceFireWidthMapDist" }

SizeOutputs ==
    { <<"vSurfaceFireArea", "sizeCalcFireArea">>,
      <<"vSurfaceFireDistAtBack", "sizeCalcFireDistAtBack">>,
      <<"vSurfaceFireDistAtHead", "sizeCalcFireDistAtFront">>,
      <<"vSurfaceFireLengthToWidth", "sizeCalcFireLengToWidth">>,
      <<"vSurfaceFireLengDist", "sizeCalcFireLengDist">>,
      <<"vSurfaceFirePerimeter", "sizeCalcFirePerimeter">>,
      <<"vSurfaceFireWidthDist", "sizeCalcFireWidthDist">>,
      <<"vSurfaceFireShapeDiagram", "sizeCalcFireShapeDiagram">> }

SizeMapOutputs ==
    { <<"vSurfaceFireMapDistAtBack", "sizeCalcFireDistAtBack">>,
      <<"vSurfaceFireMapDistAtHead", "sizeCalcFireDistAtFront">>,
      <<"vSurfaceFireLengMapDist", "sizeCalcFireLengDist">>,
      <<"vSurfaceFireWidthMapDist", "sizeCalcFireWidthDist">> }

reconfigureSizeModuleBody(g, p) ==
    LET g1 == OutputsFrom(Activate(g, SizeAlwaysOn), p, SizeOutputs)
    IN  IF boolean(p, "mapCalcDist")
        THEN OutputsFrom(Activate(g1, {"fMapScale"}), p, SizeMapOutputs)
        ELSE g1

\* variant of reconfigureSizeModule that lacks the early return
reconfigureSizeModuleNoReturn(g, p) == reconfigureSizeModuleBody(g, p)

reconfigureSizeModule(g, p) ==
    IF ~boolean(p, "sizeModuleActive") THEN g
    ELSE reconfigureSizeModuleBody(g, p)

-----------------------------------------------------------------------------
(* EqCalc::reconfigureSpotModule *)

SpotOutputs ==
    { <<"vSpotDistBurningPile", "spotCalcDistBurningPile">>,
      <<"vSpotCoverHtBurningPile", "spotCalcCoverHtBurningPile">>,
      <<"vSpotFirebrandHtBurningPile", "spotCalcFirebrandHtBurningPile">>,
      <<"vSpotFlatDistBurningPile", "spotCalcFlatDistBurningPile">>,
      <<"vSpotDistSurfaceFire", "spotCalcDistSurfaceFire">>,
      <<"vSpotCoverHtSurfaceFire", "spotCalcCoverHtSurfaceFire">>,
      <<"vSpotFirebrandDriftSurfaceFire", "spotCalcFirebrandDriftSurfaceFire">>,
      <<"vSpotFirebrandHtSurfaceFire", "spotCalcFirebrandHtSurfaceFire">>,
      <<"vSpotFlatDistSurfaceFire", "spotCalcFlatDistSurfaceFire">>,
      <<"vSpotDistTorchingTrees", "spotCalcDistTorchingTrees">>,
      <<"vSpotCoverHtTorchingTrees", "spotCalcCoverHtTorchingTrees">>,
      <<"vSpotFlameDurTorchingTrees", "spotCalcFlameDurTorchingTrees">>,
      <<"vSpotFlameHtTorchingTrees", "spotCalcFlameHtTorchingTrees">>,
      <<"vSpotFlameRatioTorchingTrees", "spotCalcFlameRatioTorchingTrees">>,
      <<"vSpotFirebrandHtTorchingTrees", "spotCalcFirebrandHtTorchingTrees">>,
      <<"vSpotFlatDistTorchingTrees", "spotCalcFlatDistTorchingTrees">> }

SpotMapOutputs ==
    { <<"vSpotMapDistBurningPile", "spotCalcDistBurningPile">>,
      <<"vSpotMapDistSurfaceFire", "spotCalcDistSurfaceFire">>,
      <<"vSpotMapDistTorchingTrees", "spotCalcDistTorchingTrees">> }

reconfigureSpotModuleBody(g, p) ==
    LET g1 == Activate(g, {"fSpotDistBurningPile", "fSpotDistSurfaceFire",
                           "fSpotDistTorchingTrees"})
        g2 == IF ~boolean(p, "surfaceModuleActive")
                 /\ (boolean(p, "surfaceConfWindSpeedAt10M")
                     \/ boolean(p, "surfaceConfWindSpeedAt10MCalc"))
              THEN Activate(g1, {"fWindSpeedAt20Ft"}) ELSE g1
        g3 == OutputsFrom(g2, p, SpotOutputs)
    IN  IF boolean(p, "mapCalcDist")
        THEN OutputsFrom(Activate(g3, {"fMapScale", "fSpotMapDistBurningPile",
                                       "fSpotMapDistSurfaceFire",
                                       "fSpotMapDistTorchingTrees"}), p, SpotMapOutputs)
        ELSE g3

reconfigureSpotModule(g, p) ==
    IF ~boolean(p, "spotModuleActive") THEN g
    ELSE reconfigureSpotModuleBody(g, p)

-----------------------------------------------------------------------------
(* EqCalc::reconfigureWeatherModule *)

WeatherOutputs ==
    { <<"vWthrRelativeHumidity", "weatherCalcWthrRelativeHumidity">>,
      <<"vWthrCumulusBaseHt", "weatherCalcWthrCumulusBaseHt">>,
      <<"vWthrHeatIndex", "weatherCalcWthrHeatIndex">>,
      <<"vWthrSummerSimmerIndex", "weatherCalcWthrSummerSimmerIndex">>,
      <<"vWthrWindChillTemp", "weatherCalcWthrWindChillTemp">> }

reconfigureWeatherModuleBody(g, p) ==
    LET g1 == Activate(g, {"fWthrRelativeHumidity", "fWthrCumulusBaseHt", "fWthrHeatIndex",
                           "fWthrSummerSimmerIndex", "fWthrWindChillTemp"})
        g2 == IF boolean(p, "weatherConfHumidityFromWetBulbElev")
              THEN OutputsFrom(Activate(g1, {"fWthrDewPointTemp"}), p,
                               {<<"vWthrDewPointTemp", "weatherCalcWthrDewPointTemp">>})
              ELSE g1
    IN  OutputsFrom(g2, p, WeatherOutputs)

reconfigureWeatherModule(g, p) ==
    IF ~boolean(p, "weatherModuleActive") THEN g
    ELSE reconfigureWeatherModuleBody(g, p)

-----------------------------------------------------------------------------
(* EqCalc::reconfigureSurfaceModule *)

SurfaceAlwaysOn ==
    { "fSurfaceFireCharacteristicsDiagram", "fSurfaceFireDistAtHead",
      "fSurfaceFireDistAtVector", "fSurfaceFireEccentricity", "fSurfaceFireEffWindAtVector",
      "fSurfaceFireFlameLengAtHead", "fSurfaceFireFlameLengAtVector",
      "fSurfaceFireMaxDirFromNorth", "fSurfaceFireHeatSource", "fSurfaceFireMaxDirDiagram",
      "fSurfaceFireMapDistAtHead", "fSurfaceFireMapDistAtVector", "fSurfaceFireSpreadAtBack",
      "fSurfaceFireSpreadAtHead", "fSurfaceFireVectorBeta", "fSurfaceFireSpreadAtBeta",
      "fSurfaceFireHeatPerUnitArea", "fSurfaceFireLengthToWidth", "fSurfaceFireLineIntAtHead",
      "fSurfaceFireLineIntAtVector", "fSurfaceFireNoWindRate", "fSurfaceFirePropagatingFlux",
      "fSurfaceFireReactionInt", "fSurfaceFireResidenceTime", "fSurfaceFuelBedIntermediates",
      "fSurfaceFuelBedHeatSink", "fSurfaceFuelMoisTimeLag" }

\* The nodes FuelBedWeighted calls itself, deactivated by a two-fuel-model choice
WeightedInternal ==
    { "fSurfaceFuelBedModel", "fSurfaceFuelBedParms", "fSurfaceFuelLoadTransferFraction",
      "fSurfaceFuelBedIntermediates", "fSurfaceFireResidenceTime", "fSurfaceFuelMoisLifeClass",
      "fSurfaceFuelMoisScenarioModel", "fSurfaceFuelMoisTimeLag", "fSurfaceFuelBedHeatSink",
      "fSurfaceFirePropagatingFlux", "fSurfaceFireReactionInt", "fSurfaceFireNoWindRate",
      "fWindAdjFactor", "fWindSpeedAt20Ft", "fWindSpeedAtMidflame",
      "fSurfaceFireSpreadAtHead", "fSurfaceFireLineIntAtHead", "fSurfaceFireFlameLengAtHead",
      "fSurfaceFireLengthToWidth", "fSurfaceFireEccentricity", "fSurfaceFireVectorBeta",
      "fSurfaceFireSpreadAtBeta", "fSurfaceFireLineIntAtVector",
      "fSurfaceFireFlameLengAtVector", "fSurfaceFireEffWindAtVector",
      "fSurfaceFireHeatPerUnitArea" }

PalmettoOutputs ==
    { <<"vSurfaceFuelPalmettoLoadDead1", "surfaceCalcPalmettoLoadDead1">>,
      <<"vSurfaceFuelPalmettoLoadDead10", "surfaceCalcPalmettoLoadDead10">>,
      <<"vSurfaceFuelPalmettoLoadDeadFoliage", "surfaceCalcPalmettoLoadDeadFoliage">>,
      <<"vSurfaceFuelPalmettoLoadLive1", "surfaceCalcPalmettoLoadLive1">>,
      <<"vSurfaceFuelPalmettoLoadLive10", "surfaceCalcPalmettoLoadLive10">>,
      <<"vSurfaceFuelPalmettoLoadLiveFoliage", "surfaceCalcPalmettoLoadLiveFoliage">>,
      <<"vSurfaceFuelPalmettoLoadLitter", "surfaceCalcPalmettoLoadLitter">>,
      <<"vSurfaceFuelBedDepth", "surfaceCalcPalmettoBedDepth">> }

AspenOutputs ==
    { <<"vSurfaceFuelAspenLoadDead1", "surfaceCalcAspenLoadDead1">>,
      <<"vSurfaceFuelAspenLoadLiveHerb", "surfaceCalcAspenLoadLiveHerb">>,
      <<"vSurfaceFuelAspenLoadLiveWoody", "surfaceCalcAspenLoadLiveWoody">>,
      <<"vSurfaceFuelAspenSavrDead1", "surfaceCalcAspenSavrDead1">>,
      <<"vSurfaceFuelAspenSavrLiveWoody", "surfaceCalcAspenSavrLiveWoody">>,
      <<"vTreeMortalityRateAspenAtVector", "surfaceCalcAspenMortality">> }

AspenNeverOutput ==
    { "vSurfaceFuelAspenLoadDead10", "vSurfaceFuelAspenSavrDead10",
      "vSurfaceFuelAspenSavrLiveHerb", "vSurfaceFuelBedDepth" }

\* variant of twofuels that never sees a two-fuel-model choice
twofuelsNever(p) == FALSE

twofuels(p) ==
    boolean(p, "surfaceConfFuelAreaWeighted")
    \/ boolean(p, "surfaceConfFuelHarmonicMean")
    \/ boolean(p, "surfaceConfFuel2Dimensional")

\* Option 1: fuel is entered as ...   (first true choice of the else-if chain)
SurfaceFuelOption(g, p) ==
    IF boolean(p, "surfaceConfFuelModels") THEN
        Activate(g, {"fSurfaceFuelBedParms", "fSurfaceFuelBedModel"})
    ELSE IF boolean(p, "surfaceConfFuelParms") THEN
        Activate(g, {"fSurfaceFuelBedParms"})
    ELSE IF twofuels(p) THEN
        Deactivate(
            SetConstant(SetUserInput(Activate(g, {"fSurfaceFuelBedWeighted"}),
                                     "vSurfaceFuelLoadTransferEq", FALSE),
                        "vSurfaceFuelLoadTransferEq", TRUE),
            WeightedInternal)
    ELSE IF boolean(p, "surfaceConfFuelPalmettoGallberry") THEN
        OutputsFrom(Activate(g, {"fSurfaceFuelPalmettoModel", "fSurfaceFuelPalmettoParms"}),
                    p, PalmettoOutputs)
    ELSE IF boolean(p, "surfaceConfFuelAspen") THEN
        [OutputsFrom(Activate(g, {"fSurfaceFuelAspenModel", "fSurfaceFuelAspenParms",
                                  "fTreeMortalityRateAspenAtVector"}), p, AspenOutputs)
            EXCEPT !.isUserOutput = @ \ AspenNeverOutput]
    ELSE g

\* bool weighted: set only inside the two-fuel-model branch of the chain
weightedFlag(p) ==
    ~boolean(p, "surfaceConfFuelModels") /\ ~boolean(p, "surfaceConfFuelParms")
    /\ twofuels(p)

\* Option 2: dynamic curing load transfer is ...
SurfaceLoadTransferOption(g, p) ==
    IF boolean(p, "surfaceConfLoadTransferCalc") THEN
        Activate(SetUserInput(g, "vSurfaceFuelLoadTransferFraction", FALSE),
                 {"fSurfaceFuelLoadTransferFraction"})
    ELSE IF boolean(p, "surfaceConfLoadTransferInput") THEN
        Deactivate(SetUserInput(g, "vSurfaceFuelLoadTransferFraction", TRUE),
                   {"fSurfaceFuelLoadTransferFraction"})
    ELSE g

\* "Never do load transfer for Palmetto-Gallberry or Western Aspen"
SurfaceNoLoadTransfer(g, p) ==
    IF boolean(p, "surfaceConfFuelPalmettoGallberry") \/ boolean(p, "surfaceConfFuelAspen")
    THEN LET g1 == updateItem(SetConstant(g, "vSurfaceFuelLoadTransferEq", TRUE),
                              "vSurfaceFuelLoadTransferEq", 0)
             g2 == Activate(SetUserInput(g1, "vSurfaceFuelLoadTransferFraction", FALSE),
                            {"fSurfaceFuelLoadTransferFraction"})
         IN  update(SetConstant(g2, "vSurfaceFuelLoadTransferFraction", TRUE),
                    "vSurfaceFuelLoadTransferFraction", Real(0, 1))
    ELSE g

\* variant of SurfaceMoistureOption that activates both moisture functions
SurfaceMoistureOptionBoth(g, p) ==
    Activate(g, {"fSurfaceFuelMoisLifeClass", "fSurfaceFuelMoisScenarioModel"})

\* Option 3: moisture is entered by ...
SurfaceMoistureOption(g, p) ==
    IF boolean(p, "surfaceConfMoisTimeLag") THEN g
    ELSE IF boolean(p, "surfaceConfMoisLifeCat") THEN
        Activate(g, {"fSurfaceFuelMoisLifeClass"})
    ELSE IF boolean(p, "surfaceConfMoisScenario") THEN
        Activate(g, {"fSurfaceFuelMoisScenarioModel"})
    ELSE g

MidflameOutput == {<<"vWindSpeedAtMidflame", "surfaceCalcWindSpeedAtMidflame">>}

\* vTreeCanopyCrownFraction->m_isConstant = c; ->update( 0.0 );
\* vWindAdjMethod->m_isConstant = c; ->updateItem( 2 );
CanopyAndMethod(g, c) ==
    updateItem(SetConstant(update(SetConstant(g, "vTreeCanopyCrownFraction", c),
                                  "vTreeCanopyCrownFraction", Real(0, 1)),
                           "vWindAdjMethod", c),
               "vWindAdjMethod", 2)

\* Choices 4.3 and 4.5: "Prevent circular dependency", then crown ratio
WindAdjCalculated(g, p, weighted) ==
    LET g1 == IF weighted THEN SetConstant(g, "vSurfaceFuelBedDepth", TRUE) ELSE g
    IN  IF boolean(p, "crownModuleActive")
        THEN OutputsFrom(Activate(g1, {"fTreeCrownRatio"}), p,
                         {<<"vTreeCrownRatio", "surfaceCalcCrownRatio">>})
        ELSE g1

\* Option 4: wind speed is entered as ...
SurfaceWindOption(g, p, weighted) ==
    IF boolean(p, "surfaceConfWindSpeedAtMidflame") THEN
        LET g1 == update(SetConstant(g, "vTreeCanopyCrownFraction", TRUE),
                         "vTreeCanopyCrownFraction", Real(0, 1))
            g2 == update(SetConstant(g1, "vWindAdjFactor", TRUE),
                         "vWindAdjFactor", Real(1, 1))
        IN  updateItem(SetConstant(g2, "vWindAdjMethod", TRUE), "vWindAdjMethod", 2)
    ELSE IF boolean(p, "surfaceConfWindSpeedAt20Ft") THEN
        CanopyAndMethod(
            OutputsFrom(Deactivate(Activate(g, {"fWindSpeedAtMidflame"}), {"fWindAdjFactor"}),
                        p, MidflameOutput),
            TRUE)
    ELSE IF boolean(p, "surfaceConfWindSpeedAt20FtCalc") THEN
        CanopyAndMethod(
            WindAdjCalculated(
                OutputsFrom(Activate(g, {"fWindSpeedAtMidflame", "fWindAdjFactor"}),
                            p, MidflameOutput),
                p, weighted),
            FALSE)
    ELSE IF boolean(p, "surfaceConfWindSpeedAt10M") THEN
        CanopyAndMethod(
            OutputsFrom(Deactivate(Activate(g, {"fWindSpeedAt20Ft", "fWindSpeedAtMidflame"}),
                                   {"fWindAdjFactor"}),
                        p, MidflameOutput),
            TRUE)
    ELSE IF boolean(p, "surfaceConfWindSpeedAt10MCalc") THEN
        CanopyAndMethod(
            WindAdjCalculated(
                OutputsFrom(Activate(g, {"fWindSpeedAt20Ft", "fWindSpeedAtMidflame",
                                         "fWindAdjFactor"}),
                            p, MidflameOutput),
                p, weighted),
            FALSE)
    ELSE g

MapDistAtVector(g, p) ==
    IF boolean(p, "mapCalcDist")
    THEN OutputsFrom(Activate(g, {"fMapScale"}), p,
                     {<<"vSurfaceFireMapDistAtVector", "surfaceCalcFireDist">>})
    ELSE g

\* Option 6: rate of spread is calculated ...
SurfaceSpreadDirOption(g, p) ==
    IF boolean(p, "surfaceConfSpreadDirMax") THEN
        LET g1 == update(SetConstant(g, "vSurfaceFireVectorDirFromUpslope", TRUE),
                         "vSurfaceFireVectorDirFromUpslope", Real(0, 1))
            g2 == update(SetConstant(g1, "vSurfaceFireVectorBeta", TRUE),
                         "vSurfaceFireVectorBeta", Real(0, 1))
            g3 == Deactivate(g2, {"fSurfaceFireVectorBeta"})
            g4 == SetUserOutput(g3, "vSurfaceFireDistAtHead", FALSE)
            g5 == OutputsFrom(g4, p,
                    { <<"vSurfaceFireDistAtVector", "surfaceCalcFireDist">>,
                      <<"vSurfaceFireEffWindAtHead", "surfaceCalcFireEffWind">>,
                      <<"vSurfaceFireFlameLengAtHead", "surfaceCalcFireFlameLeng">>,
                      <<"vSurfaceFireLineIntAtHead", "surfaceCalcFireLineInt">>,
                      <<"vSurfaceFireSpreadAtHead", "surfaceCalcFireSpread">> })
        IN  MapDistAtVector(g5, p)
    ELSE
        LET g1 == SetConstant(g, "vSurfaceFireVectorDirFromUpslope", FALSE)
            g2 == IF boolean(p, "surfaceConfDegreesWrtNorth")
                  THEN Activate(g1, {"fSurfaceFireVectorDirFromUpslope"}) ELSE g1
            g3 == OutputsFrom(g2, p,
                    { <<"vSurfaceFireDistAtVector", "surfaceCalcFireDist">>,
                      <<"vSurfaceFireEffWindAtVector", "surfaceCalcFireEffWind">>,
                      <<"vSurfaceFireFlameLengAtVector", "surfaceCalcFireFlameLeng">>,
                      <<"vSurfaceFireLineIntAtVector", "surfaceCalcFireLineInt">>,
                      <<"vSurfaceFireSpreadAtVector", "surfaceCalcFireSpread">> })
        IN  MapDistAtVector(g3, p)

WindSpeedVars == {"vWindSpeedAtMidflame", "vWindSpeedAt20Ft", "vWindSpeedAt10M"}

SetLabels(g, s) == [g EXCEPT !.label = [v \in (DOMAIN @) \cup WindSpeedVars |->
                                            IF v \in WindSpeedVars THEN s ELSE @[v]]]

\* standard labels, then Option 7: wind direction is ...
SurfaceWindDirOption(g, p) ==
    LET g1 == SetConstant(SetLabels(g, ""), "vWindDirFromUpslope", FALSE)
    IN  IF boolean(p, "surfaceConfWindDirInput") THEN
            IF boolean(p, "surfaceConfDegreesWrtNorth")
            THEN Activate(g1, {"fWindDirFromUpslope"}) ELSE g1
        ELSE
            SetLabels(update(SetConstant(g1, "vWindDirFromUpslope", TRUE),
                             "vWindDirFromUpslope", Real(0, 1)),
                      "Upslope")

MaxDirRequested(p) ==
    boolean(p, "surfaceCalcFireMaxDirFromUpslope")
    \/ boolean(p, "surfaceCalcFireMaxDirDiagram")
    \/ (boolean(p, "sizeModuleActive") /\ boolean(p, "sizeCalcFireShapeDiagram"))

\* Option 8: wind & spread directions are ...
SurfaceDegreesOption(g, p) ==
    IF boolean(p, "surfaceConfDegreesWrtUpslope")
    THEN SetUserOutput(g, "vSurfaceFireMaxDirFromUpslope", MaxDirRequested(p))
    ELSE SetUserOutput(Activate(g, {"fSiteUpslopeDirFromNorth"}),
                       "vSurfaceFireMaxDirFromNorth", MaxDirRequested(p))

\* Option 10 (and 9): slope steepness is ...
SurfaceSlopeOption(g, p) ==
    IF boolean(p, "surfaceConfSlopeInput") THEN
        IF boolean(p, "surfaceConfSlopeFraction") THEN g
        ELSE IF boolean(p, "surfaceConfSlopeDegrees")
             THEN Activate(g, {"fSiteSlopeFraction"}) ELSE g
    ELSE
        LET g1 == Activate(g, {"fMapSlope", "fMapScale", "fSiteSlopeFraction"})
            g2 == OutputsFrom(g1, p,
                    { <<"vSiteSlopeReach", "surfaceCalcSlopeReach">>,
                      <<"vSiteSlopeRise", "surfaceCalcSlopeRise">> })
        IN  IF boolean(p, "surfaceCalcSlopeSteepness")
            THEN OutputsFrom(g2, p,
                    { <<"vSiteSlopeFraction", "surfaceConfSlopeFraction">>,
                      <<"vSiteSlopeDegrees", "surfaceConfSlopeDegrees">> })
            ELSE g2

SurfaceOutputs ==
    { <<"vSurfaceFireHeatPerUnitArea", "surfaceCalcFireHeatPerUnitArea">>,
      <<"vSurfaceFireReactionInt", "surfaceCalcFireReactionInt">>,
      <<"vSurfaceFireWindSpeedFlag", "surfaceCalcFireWindSpeedFlag">>,
      <<"vSurfaceFireWindSpeedLimit", "surfaceCalcFireWindSpeedLimit">>,
      <<"vTreeCanopyCrownFraction", "surfaceCalcCrownFillPortion">>,
      <<"vWindAdjFactor", "surfaceCalcWindAdjFactor">>,
      <<"vWindAdjMethod", "surfaceCalcWindAdjMethod">> }

\* "These should never be output if 2 fuel models used"
PerModelOutputs ==
    { <<"vSurfaceFireHeatSource", "surfaceCalcFireHeatSource">>,
      <<"vSurfaceFireReactionIntDead", "surfaceCalcFireReactionIntDead">>,
      <<"vSurfaceFireReactionIntLive", "surfaceCalcFireReactionIntLive">>,
      <<"vSurfaceFireMaxDirDiagram", "surfaceCalcFireMaxDirDiagram">>,
      <<"vSurfaceFireCharacteristicsDiagram", "surfaceCalcFireCharacteristicsDiagram">>,
      <<"vSurfaceFuelLoadTransferFraction", "surfaceCalcFuelLoadTransferFraction">>,
      <<"vSurfaceFuelLoadDead", "surfaceCalcFuelLoadDead">>,
      <<"vSurfaceFuelLoadDeadHerb", "surfaceCalcFuelLoadDeadHerb">>,
      <<"vSurfaceFuelLoadLive", "surfaceCalcFuelLoadLive">>,
      <<"vSurfaceFuelLoadUndeadHerb", "surfaceCalcFuelLoadUndeadHerb">>,
      <<"vSurfaceFuelBedSigma", "surfaceCalcFuelBedSigma">>,
      <<"vSurfaceFuelBedPackingRatio", "surfaceCalcFuelBedPackingRatio">>,
      <<"vSurfaceFuelBedBulkDensity", "surfaceCalcFuelBedBulkDensity">>,
      <<"vSurfaceFuelBedBetaRatio", "surfaceCalcFuelBedBetaRatio">>,
      <<"vSurfaceFuelBedDeadFraction", "surfaceCalcFuelBedDeadFraction">>,
      <<"vSurfaceFuelBedLiveFraction", "surfaceCalcFuelBedLiveFraction">>,
      <<"vSurfaceFuelBedHeatSink", "surfaceCalcFuelBedHeatSink">>,
      <<"vSurfaceFuelBedMoisDead", "surfaceCalcFuelBedMoisDead">>,
      <<"vSurfaceFuelBedMoisLive", "surfaceCalcFuelBedMoisLive">>,
      <<"vSurfaceFuelBedMextLive", "surfaceCalcFuelBedMextLive">>,
      <<"vSurfaceFireResidenceTime", "surfaceCalcFireResidenceTime">>,
      <<"vSurfaceFireWindFactor", "surfaceCalcFireWindFactor">>,
      <<"vSurfaceFireSlopeFactor", "surfaceCalcFireSlopeFactor">> }

PerModelVars == {q[1] : q \in PerModelOutputs}

\* v->m_isUserOutput = twofuels ? false : prop->boolean( name )
SurfacePerModelOutputs(g, p) ==
    IF twofuels(p)
    THEN [g EXCEPT !.isUserOutput = @ \ PerModelVars]
    ELSE OutputsFrom(g, p, PerModelOutputs)

reconfigureSurfaceModuleBody(g, p) ==
    LET g0  == Deactivate(Activate(g, SurfaceAlwaysOn), {"fTreeCrownRatio"})
        g1  == SetConstant(g0, "vSurfaceFuelLoadDeadHerb", TRUE)
        g2  == SurfaceFuelOption(g1, p)
        g3  == SurfaceLoadTransferOption(g2, p)
        g4  == SurfaceNoLoadTransfer(g3, p)
        g5  == SurfaceMoistureOption(g4, p)
        g6  == SurfaceWindOption(g5, p, weightedFlag(p))
        g7  == SurfaceSpreadDirOption(g6, p)
        g8  == SurfaceWindDirOption(g7, p)
        g9  == SurfaceDegreesOption(g8, p)
        g10 == SurfaceSlopeOption(g9, p)
        g11 == OutputsFrom(g10, p, SurfaceOutputs)
        g12 == SurfacePerModelOutputs(g11, p)
    \* the option blocks run in this order, each on the graph the one before left
    IN  IF DOMAIN g4 = DOMAIN g /\ DOMAIN g8 = DOMAIN g /\ DOMAIN g12 = DOMAIN g
        THEN SetConstant(update(g12, "vSurfaceFuelMoisDead1000", Real(1, 5)),
                         "vSurfaceFuelMoisDead1000", TRUE)
        ELSE g

reconfigureSurfaceModule(g, p) ==
    IF ~boolean(p, "surfaceModuleActive") THEN g
    ELSE reconfigureSurfaceModuleBody(g, p)

-----------------------------------------------------------------------------
(* EqCalc::reconfigure: the eleven module procedures, in this order *)

\* variant of ModuleOrder with Crown called before Surface
ModuleOrderCrownFirst ==
    << "Documentation", "Crown", "Surface", "Size", "Contain", "Spot", "Scorch",
       "Mortality", "Ignition", "Weather", "Safety" >>

ModuleOrder ==
    << "Documentation", "Surface", "Crown", "Size", "Contain", "Spot", "Scorch",
       "Mortality", "Ignition", "Weather", "Safety" >>

Procedure(name, g, p) ==
    CASE name = "Documentation" -> reconfigureDocumentation(g, p)
      [] name = "Surface"       -> reconfigureSurfaceModule(g, p)
      [] name = "Crown"         -> reconfigureCrownModule(g, p)
      [] name = "Size"          -> reconfigureSizeModule(g, p)
      [] name = "Contain"       -> reconfigureContainModule(g, p)
      [] name = "Spot"          -> reconfigureSpotModule(g, p)
      [] name = "Scorch"        -> reconfigureScorchModule(g, p)
      [] name = "Mortality"     -> reconfigureMortalityModule(g, p)
      [] name = "Ignition"      -> reconfigureIgnitionModule(g, p)
      [] name = "Weather"       -> reconfigureWeatherModule(g, p)
      [] name = "Safety"        -> reconfigureSafetyModule(g, p)

\* the procedures from the i-th on, called one after another: a procedure has
\* returned, leaving graph h, before the next one is called on h
RECURSIVE RunFrom(_, _, _)
RunFrom(i, g, p) ==
    IF i > Len(ModuleOrder) THEN g
    ELSE LET h == Procedure(ModuleOrder[i], g, p)
         IN  IF DOMAIN h = DOMAIN FreshGraph THEN RunFrom(i + 1, h, p) ELSE h

\* the graph one whole call of reconfigure() leaves, from graph g under configuration p
reconfigure(g, p) == RunFrom(1, g, p)

\* EqCalc::showInitFromFuelModelButton
showInitFromFuelModelButton(g) ==
    "fSurfaceFuelBedParms" \in g.active /\ "fSurfaceFuelBedModel" \notin g.active

-----------------------------------------------------------------------------
(* Configurations *)

ModuleFlags ==
    { "surfaceModuleActive", "crownModuleActive", "sizeModuleActive", "containModuleActive",
      "spotModuleActive", "scorchModuleActive", "mortalityModuleActive",
      "ignitionModuleActive", "weatherModuleActive", "safetyModuleActive" }

TwoFuelChoices ==
    { "surfaceConfFuelAreaWeighted", "surfaceConfFuelHarmonicMean",
      "surfaceConfFuel2Dimensional" }

\* the fuel option group, in the priority order of the else-if chain
FuelPriority ==
    << "surfaceConfFuelModels", "surfaceConfFuelParms", "surfaceConfFuelAreaWeighted",
       "surfaceConfFuelHarmonicMean", "surfaceConfFuel2Dimensional",
       "surfaceConfFuelPalmettoGallberry", "surfaceConfFuelAspen" >>

FuelChoices == {FuelPriority[i] : i \in 1..Len(FuelPriority)}

LoadTransferChoices == {"surfaceConfLoadTransferCalc", "surfaceConfLoadTransferInput"}

MoistureChoices ==
    {"surfaceConfMoisTimeLag", "surfaceConfMoisLifeCat", "surfaceConfMoisScenario"}

WindChoices ==
    { "surfaceConfWindSpeedAtMidflame", "surfaceConfWindSpeedAt20Ft",
      "surfaceConfWindSpeedAt20FtCalc", "surfaceConfWindSpeedAt10M",
      "surfaceConfWindSpeedAt10MCalc" }

SpreadDirChoices == {"surfaceConfSpreadDirMax", "surfaceConfSpreadDirInput"}
WindDirChoices   == {"surfaceConfWindDirInput", "surfaceConfWindDirUpslope"}
DegreesChoices   == {"surfaceConfDegreesWrtUpslope", "surfaceConfDegreesWrtNorth"}
SlopeChoices     == {"surfaceConfSlopeInput", "surfaceConfSlopeDerived"}
SlopeUnitChoices == {"surfaceConfSlopeFraction", "surfaceConfSlopeDegrees"}

DirectionChoices == SpreadDirChoices \cup WindDirChoices \cup DegreesChoices

\* one choice of each of the spread direction, wind direction and degrees groups
DirectionCombos ==
    { {"surfaceConfSpreadDirMax", "surfaceConfWindDirUpslope", "surfaceConfDegreesWrtUpslope"},
      {"surfaceConfSpreadDirMax", "surfaceConfWindDirInput", "surfaceConfDegreesWrtNorth"},
      {"surfaceConfSpreadDirInput", "surfaceConfWindDirInput", "surfaceConfDegreesWrtUpslope"},
      {"surfaceConfSpreadDirInput", "surfaceConfWindDirInput", "surfaceConfDegreesWrtNorth"} }

\* one choice of each of the slope and slope units groups
SlopeCombos ==
    { {"surfaceConfSlopeInput", "surfaceConfSlopeFraction"},
      {"surfaceConfSlopeInput", "surfaceConfSlopeDegrees"},
      {"surfaceConfSlopeDerived", "surfaceConfSlopeFraction"} }

\* every output ("Calc") switch the procedures read
CalcFlags ==
    {q[2] : q \in ContainOutputs \cup CrownOutputs \cup SizeOutputs \cup SpotOutputs
                  \cup WeatherOutputs \cup PalmettoOutputs \cup AspenOutputs
                  \cup SurfaceOutputs \cup PerModelOutputs \cup MidflameOutput}
    \cup { "ignitionCalcIgnitionFirebrandProb", "ignitionCalcIgnitionLightningProb",
           "ignitionCalcFuelTemp", "mortalityCalcBarkThickness",
           "mortalityCalcTreeCrownLengScorched", "mortalityCalcTreeCrownVolScorched",
           "mortalityCalcTreeMortalityCount", "mortalityCalcTreeMortalityRate",
           "safetyCalcRadius", "safetyCalcSepDist", "safetyCalcSize",
           "scorchCalcScorchHt", "weatherCalcWthrDewPointTemp",
           "surfaceCalcCrownRatio", "surfaceCalcFireDist", "surfaceCalcFireEffWind",
           "surfaceCalcFireFlameLeng", "surfaceCalcFireLineInt", "surfaceCalcFireSpread",
           "surfaceCalcFireMaxDirFromUpslope", "surfaceCalcSlopeReach",
           "surfaceCalcSlopeRise", "surfaceCalcSlopeSteepness", "mapCalcDist" }

\* the default choices of the option groups outside the Surface fuel/wind groups
OtherDefaults ==
    { "surfaceConfLoadTransferInput", "surfaceConfMoisTimeLag", "surfaceConfSpreadDirMax",
      "surfaceConfWindDirUpslope", "surfaceConfDegreesWrtUpslope", "surfaceConfSlopeInput",
      "surfaceConfSlopeFraction", "surfaceConfWindLimitApplied",
      "crownConfUseFireLineInt", "scorchConfUseFireLineInt",
      "containConfResourcesSingle", "containConfLimitDistOff",
      "weatherConfHumidityFromDewPoint", "docDescriptionActive" }

\* the other choice of each two-way group of OtherDefaults, and the remaining
\* documentation sections
AltDefaults ==
    (OtherDefaults \ { "crownConfUseFireLineInt", "scorchConfUseFireLineInt",
                       "containConfResourcesSingle", "containConfLimitDistOff",
                       "weatherConfHumidityFromDewPoint", "docDescriptionActive" })
    \cup { "crownConfUseFlameLeng", "scorchConfUseFlameLeng",
           "containConfResourcesMultiple", "containConfLimitDistOn",
           "weatherConfHumidityFromWetBulbElev", "docRxActive", "docFireActive",
           "docTrainingActive" }

BaseConfig ==
    {"surfaceModuleActive", "surfaceConfFuelModels", "surfaceConfWindSpeedAtMidflame"}
    \cup OtherDefaults \cup CalcFlags

\* configuration c with the choice(s) of one option group replaced
With(c, group, choice) == (c \ group) \cup choice

\* the number of reconfigure() calls a behaviour of Spec makes
MaxReconfigures == 2

\* the output switches of the Safety module
SafetyCalcFlags == {"safetyCalcRadius", "safetyCalcSepDist", "safetyCalcSize"}

\* The configurations of Spec: the base configuration, one option group or the
\* module selection changed at a time.
SeqConfigs ==
    { BaseConfig, BaseConfig \ CalcFlags, BaseConfig \ ModuleFlags,
      BaseConfig \cup ModuleFlags }
    \cup { With(BaseConfig, FuelChoices, {f}) :
             f \in { "surfaceConfFuelParms", "surfaceConfFuelAreaWeighted",
                     "surfaceConfFuelPalmettoGallberry", "surfaceConfFuelAspen" } }
    \cup { With(BaseConfig, MoistureChoices, {m}) :
             m \in {"surfaceConfMoisLifeCat", "surfaceConfMoisScenario"} }
    \cup { With(BaseConfig, WindChoices, {w}) :
             w \in WindChoices \ {"surfaceConfWindSpeedAtMidflame"} }
    \cup { With(With(With(BaseConfig, SpreadDirChoices, {"surfaceConfSpreadDirInput"}),
                     DegreesChoices, {"surfaceConfDegreesWrtNorth"}),
                WindDirChoices, {"surfaceConfWindDirInput"}),
           With(BaseConfig, SlopeChoices, {"surfaceConfSlopeDerived"}),
           With(With(BaseConfig, ModuleFlags,
                     {"crownModuleActive", "spotModuleActive", "scorchModuleActive"}),
                WindChoices, {"surfaceConfWindSpeedAt10M"}),
           With(With(BaseConfig, ModuleFlags, {"surfaceModuleActive", "crownModuleActive"}),
                WindChoices, {"surfaceConfWindSpeedAt20FtCalc"}),
           With(BaseConfig, ModuleFlags, {"surfaceModuleActive", "mortalityModuleActive"}),
           With(BaseConfig, ModuleFlags, {"safetyModuleActive"}),
           With(With(BaseConfig, ModuleFlags, {"safetyModuleActive"}),
                SafetyCalcFlags, {"safetyCalcSepDist"}),
           With(With(BaseConfig, ModuleFlags, {"safetyModuleActive"}),
                SafetyCalcFlags, {"safetyCalcSize"}),
           With(BaseConfig, ModuleFlags, {"sizeModuleActive", "containModuleActive"}),
           With(With(BaseConfig, OtherDefaults, AltDefaults), ModuleFlags,
                {"scorchModuleActive", "containModuleActive", "weatherModuleActive"}) }

\* The configurations of SpecFresh, each given to a freshly constructed graph:
\*   every module selection under three wind choices, and under two wind
\*   choices with the alternative choices of the other modules' groups and two
\*   fuel models;
\*   every subset of the fuel choice flags (none, one, several true);
\*   every well-formed choice of the fuel, load transfer, moisture and wind
\*   groups under four direction and three slope combinations, with and without
\*   the Crown module.
FreshConfigs ==
    { With(With(BaseConfig, ModuleFlags, m), WindChoices, {w}) :
        m \in SUBSET ModuleFlags,
        w \in { "surfaceConfWindSpeedAtMidflame", "surfaceConfWindSpeedAt10M",
                "surfaceConfWindSpeedAt20FtCalc" } }
    \cup { With(With(With(With(BaseConfig, OtherDefaults, AltDefaults), FuelChoices,
                          {"surfaceConfFuel2Dimensional"}), ModuleFlags, m),
                WindChoices, {w}) :
             m \in SUBSET ModuleFlags,
             w \in {"surfaceConfWindSpeedAtMidflame", "surfaceConfWindSpeedAt10MCalc"} }
    \cup { With(With(With(c, FuelChoices, f), LoadTransferChoices, {l}), WindChoices, {w}) :
             c \in {BaseConfig, BaseConfig \ CalcFlags},
             f \in SUBSET FuelChoices, l \in LoadTransferChoices,
             w \in {"surfaceConfWindSpeedAtMidflame", "surfaceConfWindSpeedAt20FtCalc"} }
    \cup { With(With(With(With(With(With(c, FuelChoices, {f}), LoadTransferChoices, {l}),
                               MoistureChoices, {m}), WindChoices, {w}),
                     DirectionChoices, d), SlopeChoices \cup SlopeUnitChoices, s) :
             c \in {BaseConfig, BaseConfig \cup {"crownModuleActive"}},
             f \in FuelChoices, l \in LoadTransferChoices, m \in MoistureChoices,
             w \in WindChoices, d \in DirectionCombos, s \in SlopeCombos }

-----------------------------------------------------------------------------
(* EqCalc::FuelBedWeighted: the per-model loop *)

\* the number of fuel models in the fuel model list
NumFuelModels == 5

FuelModelIds == 1..NumFuelModels

\* fm->m_depth of fuel model k
Depth(k) == Real(1 + ((2 * k) % 3), 2)

\* the other fuel model attributes the loop loads into the equation tree
FuelAttributeVars ==
    << "vSurfaceFuelBedMextDead", "vSurfaceFuelHeatDead", "vSurfaceFuelHeatLive",
       "vSurfaceFuelLoadDead1", "vSurfaceFuelLoadDead10", "vSurfaceFuelLoadDead100",
       "vSurfaceFuelLoadLiveHerb", "vSurfaceFuelLoadLiveWood", "vSurfaceFuelSavrDead1",
       "vSurfaceFuelSavrLiveHerb", "vSurfaceFuelSavrLiveWood" >>

\* the local arrays of FuelBedWeighted and the variable each is captured from
ArrayVar ==
    [ rxi  |-> "vSurfaceFireReactionInt",      waf  |-> "vWindAdjFactor",
      wmf  |-> "vWindSpeedAtMidflame",         rosh |-> "vSurfaceFireSpreadAtHead",
      mxd  |-> "vSurfaceFireMaxDirFromUpslope", ewsh |-> "vSurfaceFireEffWindAtHead",
      wsl  |-> "vSurfaceFireWindSpeedLimit",   flih |-> "vSurfaceFireLineIntAtHead",
      flh  |-> "vSurfaceFireFlameLengAtHead",  flw  |-> "vSurfaceFireLengthToWidth",
      rosv |-> "vSurfaceFireSpreadAtVector",   fliv |-> "vSurfaceFireLineIntAtVector",
      flv  |-> "vSurfaceFireFlameLengAtVector", ewsv |-> "vSurfaceFireEffWindAtVector",
      hua  |-> "vSurfaceFireHeatPerUnitArea" ]

Arrays == DOMAIN ArrayVar

\* The real-valued variables each node called in the loop stores.  The
\* per-particle arrays (vSurfaceFuelLoad[i], vSurfaceFuelMois[i], ...) that
\* FuelBedParms and FuelMoisTimeLag fill are not part of the store here.
NodeOutputs ==
    [ FuelBedParms |-> {}, FuelLoadTransferFraction |-> {"vSurfaceFuelLoadTransferFraction"},
      FuelBedIntermediates |->
        { "vSurfaceFuelBedSigma", "vSurfaceFuelBedBulkDensity", "vSurfaceFuelBedPackingRatio",
          "vSurfaceFuelBedBetaRatio", "vSurfaceFuelBedDeadFraction",
          "vSurfaceFuelBedLiveFraction", "vSurfaceFuelLoadDeadHerb",
          "vSurfaceFuelLoadUndeadHerb", "vSurfaceFuelLoadDead", "vSurfaceFuelLoadLive" },
      FireResidenceTime |-> {"vSurfaceFireResidenceTime"},
      FuelMoisLifeClass |->
        { "vSurfaceFuelMoisDead1", "vSurfaceFuelMoisDead10", "vSurfaceFuelMoisDead100",
          "vSurfaceFuelMoisDead1000", "vSurfaceFuelMoisLiveHerb", "vSurfaceFuelMoisLiveWood" },
      FuelMoisScenarioModel |->
        { "vSurfaceFuelMoisDead1", "vSurfaceFuelMoisDead10", "vSurfaceFuelMoisDead100",
          "vSurfaceFuelMoisDead1000", "vSurfaceFuelMoisLiveHerb", "vSurfaceFuelMoisLiveWood" },
      FuelMoisTimeLag |-> {},
      FuelBedHeatSink |->
        { "vSurfaceFuelBedMoisDead", "vSurfaceFuelBedMoisLive", "vSurfaceFuelBedMextLive",
          "vSurfaceFuelBedHeatSink" },
      FirePropagatingFlux |-> {"vSurfaceFirePropagatingFlux"},
      FireReactionInt |->
        { "vSurfaceFireReactionInt", "vSurfaceFireReactionIntDead",
          "vSurfaceFireReactionIntLive" },
      FireNoWindRate |-> {"vSurfaceFireNoWindRate"},
      WindAdjFactor |-> {"vWindAdjFactor", "vTreeCanopyCrownFraction"},
      WindSpeedAt20Ft |-> {"vWindSpeedAt20Ft"},
      WindSpeedAtMidflame |-> {"vWindSpeedAtMidflame"},
      FireSpreadAtHead |-> { "vSurfaceFireSpreadAtHead", "vSurfaceFireMaxDirFromUpslope",
                             "vSurfaceFireEffWindAtHead", "vSurfaceFireWindSpeedLimit",
                             "vSurfaceFireWindFactor", "vSurfaceFireSlopeFactor" },
      FireLineIntAtHead |-> {"vSurfaceFireLineIntAtHead"},
      FireFlameLengAtHead |-> {"vSurfaceFireFlameLengAtHead"},
      FireLengthToWidth |-> {"vSurfaceFireLengthToWidth"},
      FireEccentricity |-> {"vSurfaceFireEccentricity"},
      FireVectorBeta |-> {"vSurfaceFireVectorBeta"},
      FireSpreadAtBeta |-> {"vSurfaceFireSpreadAtVector"},
      FireLineIntAtVector |-> {"vSurfaceFireLineIntAtVector"},
      FireFlameLengAtVector |-> {"vSurfaceFireFlameLengAtVector"},
      FireEffWindAtVector |-> {"vSurfaceFireEffWindAtVector"},
      FireHeatPerUnitArea |-> {"vSurfaceFireHeatPerUnitArea"} ]

\* the discrete variables each node stores
NodeItems ==
    [ n \in DOMAIN NodeOutputs |->
        IF n = "WindAdjFactor" THEN {"vWindAdjMethod"}
        ELSE IF n = "FireSpreadAtHead" THEN {"vSurfaceFireWindSpeedFlag"}
        ELSE {} ]

\* a pass that calls every node whatever the configuration
PassCallsUnconditional(p) ==
    << "FuelBedParms", "FuelLoadTransferFraction", "FuelBedIntermediates",
       "FireResidenceTime", "FuelMoisTimeLag", "FuelBedHeatSink", "FirePropagatingFlux",
       "FireReactionInt", "FireNoWindRate", "WindAdjFactor", "WindSpeedAt20Ft",
       "WindSpeedAtMidflame", "FireSpreadAtHead", "FireLineIntAtHead",
       "FireFlameLengAtHead", "FireLengthToWidth", "FireEccentricity", "FireVectorBeta",
       "FireSpreadAtBeta", "FireLineIntAtVector", "FireFlameLengAtVector",
       "FireEffWindAtVector", "FireHeatPerUnitArea" >>

\* the nodes one pass of the loop calls, in order
PassCalls(p) ==
    << "FuelBedParms", "FuelLoadTransferFraction", "FuelBedIntermediates",
       "FireResidenceTime" >>
    \o (IF boolean(p, "surfaceConfMoisLifeCat") THEN <<"FuelMoisLifeClass">>
        ELSE IF boolean(p, "surfaceConfMoisScenario") THEN <<"FuelMoisScenarioModel">>
        ELSE <<>>)
    \o << "FuelMoisTimeLag", "FuelBedHeatSink", "FirePropagatingFlux", "FireReactionInt",
          "FireNoWindRate" >>
    \o (IF boolean(p, "surfaceConfWindSpeedAt10MCalc")
           \/ boolean(p, "surfaceConfWindSpeedAt20FtCalc")
        THEN <<"WindAdjFactor">> ELSE <<>>)
    \o (IF boolean(p, "surfaceConfWindSpeedAt10M")
           \/ boolean(p, "surfaceConfWindSpeedAt10MCalc")
        THEN <<"WindSpeedAt20Ft">> ELSE <<>>)
    \o (IF ~boolean(p, "surfaceConfWindSpeedAtMidflame")
        THEN <<"WindSpeedAtMidflame">> ELSE <<>>)
    \o << "FireSpreadAtHead", "FireLineIntAtHead", "FireFlameLengAtHead",
          "FireLengthToWidth", "FireEccentricity" >>
    \o (IF boolean(p, "surfaceConfSpreadDirMax") THEN <<>> ELSE <<"FireVectorBeta">>)
    \o << "FireSpreadAtBeta", "FireLineIntAtVector", "FireFlameLengAtVector",
          "FireEffWindAtVector", "FireHeatPerUnitArea" >>

\* The fire behavior library is outside the program: the value a node stores
\* in variable v while fuel model k is loaded is tabulated.  The head rates
\* include zero and 0.000001, the vector rate is at most the head rate and for
\* one model is zero while the head rate is not, the wind speed
\* limit lies on both sides of the midflame wind, and the other values rise
\* with k for some variables and fall for others.
NodeValue(k, v) ==
    LET vs == << "vSurfaceFireReactionInt", "vWindAdjFactor", "vWindSpeedAtMidflame",
                 "vSurfaceFireMaxDirFromUpslope", "vSurfaceFireEffWindAtHead",
                 "vSurfaceFireLineIntAtHead", "vSurfaceFireFlameLengAtHead",
                 "vSurfaceFireLengthToWidth", "vSurfaceFireLineIntAtVector",
                 "vSurfaceFireFlameLengAtVector", "vSurfaceFireEffWindAtVector",
                 "vSurfaceFireHeatPerUnitArea" >>
        at == {j \in 1..Len(vs) : vs[j] = v}
        heads   == << Real(10, 1), Real(20, 1), Zero, Real(5, 1), Real(1, 1000000) >>
        vectors == << Real(5, 1), Zero, Zero, Real(5, 1), Real(1, 1000000) >>
    IN  IF v = "vSurfaceFireSpreadAtHead" THEN heads[((k - 1) % 5) + 1]
        ELSE IF v = "vSurfaceFireSpreadAtVector" THEN vectors[((k - 1) % 5) + 1]
        ELSE IF v = "vSurfaceFireWindSpeedLimit" THEN Real(26 + 3 * k, 1)
        ELSE IF at = {} THEN Real(k, 1)
        ELSE LET j == CHOOSE x \in at : TRUE
             IN  Real(10 * j + (IF j % 2 = 0 THEN k ELSE NumFuelModels + 1 - k), 1)

\* the item a node stores in a discrete variable while fuel model k is loaded
NodeItem(k, v) == k % 2

\* the variables the nodes of one pass store
PassOutputs(p) == UNION {NodeOutputs[PassCalls(p)[j]] : j \in 1..Len(PassCalls(p))}
PassItems(p)   == UNION {NodeItems[PassCalls(p)[j]] : j \in 1..Len(PassCalls(p))}

\* the body of the loop up to the last node call, with fuel model k loaded
ForEachModel(g, p, k) ==
    LET attrs == {FuelAttributeVars[j] : j \in 1..Len(FuelAttributeVars)}
        beta  == IF boolean(p, "surfaceConfSpreadDirMax")
                 THEN {"vSurfaceFireVectorBeta"} ELSE {}
        vals  == attrs \cup PassOutputs(p) \cup beta \cup {"vSurfaceFuelBedDepth"}
        items == PassItems(p) \cup {"vSurfaceFuelLoadTransferEq"}
    IN  [g EXCEPT
          !.nativeValue =
              [v \in (DOMAIN @) \cup vals |->
                  IF v = "vSurfaceFuelBedDepth" THEN Depth(k)
                  ELSE IF v \in beta THEN Zero
                  ELSE IF v \in vals THEN NodeValue(k, v)
                  ELSE @[v]],
          !.activeItem =
              [v \in (DOMAIN @) \cup items |->
                  IF v \in items THEN NodeItem(k, v) ELSE @[v]] ]

\* rxi[i] = vSurfaceFireReactionInt->m_nativeValue; ... for every array;
\* wsf[i] = ( wmf[i] > wsl[i] ) ? 1 : 0
Capture(cap, g, i) ==
    LET now == [a \in Arrays |-> g.nativeValue[ArrayVar[a]]]
    IN  [a \in Arrays \cup {"wsf"} |->
            [cap[a] EXCEPT ![i + 1] =
                IF a = "wsf" THEN (IF RGt(now.wmf, now.wsl) THEN 1 ELSE 0)
                ELSE now[a]]]

-----------------------------------------------------------------------------
(* EqCalc::FuelBedWeighted: the combined outputs *)

\* if ( cov[0] > 0.999 || cov[1] > 0.999 )
DominanceThreshold == Real(999, 1000)

\* if ( rosh[0] > 0.000001 && rosh[1] > 0.000001 )
SmallRate == Real(1, 1000000)

\* cov[0] = vSurfaceFuelBedCoverage1->m_nativeValue; cov[1] = 1. - cov[0]
Coverage(g) ==
    << g.nativeValue["vSurfaceFuelBedCoverage1"],
       RSub(One, g.nativeValue["vSurfaceFuelBedCoverage1"]) >>

\* The results FBL_SurfaceFireExpectedSpreadRate may return: the function is
\* outside the program, so any of these is taken.
ExpectedRates == {Zero, Real(7, 1)}

\* the sum with the primary coverage as both weights
AreaWeightedPrimaryCoverage(cov, ros) == RAdd(RMul(cov[1], ros[1]), RMul(cov[1], ros[2]))

AreaWeighted(cov, ros) == RAdd(RMul(cov[1], ros[1]), RMul(cov[2], ros[2]))

HarmonicMean(cov, ros) == RDiv(One, RAdd(RDiv(cov[1], ros[1]), RDiv(cov[2], ros[2])))

\* the weighting without the test of the head rates
SpreadRatesUnguarded(p, cov, cap, expected) ==
    IF boolean(p, "surfaceConfFuelAreaWeighted")
    THEN << AreaWeighted(cov, cap.rosh), AreaWeighted(cov, cap.rosv) >>
    ELSE IF boolean(p, "surfaceConfFuelHarmonicMean")
    THEN << HarmonicMean(cov, cap.rosh), HarmonicMean(cov, cap.rosv) >>
    ELSE IF boolean(p, "surfaceConfFuel2Dimensional")
    THEN expected
    ELSE << Zero, Zero >>

\* << wtdh, wtdv >> of the weighting method; expected holds the two results
\* of FBL_SurfaceFireExpectedSpreadRate
SpreadRates(p, cov, cap, expected) ==
    IF boolean(p, "surfaceConfFuelAreaWeighted")
    THEN << AreaWeighted(cov, cap.rosh), AreaWeighted(cov, cap.rosv) >>
    ELSE IF boolean(p, "surfaceConfFuelHarmonicMean")
    THEN (IF RGt(cap.rosh[1], SmallRate) /\ RGt(cap.rosh[2], SmallRate)
          THEN << HarmonicMean(cov, cap.rosh), HarmonicMean(cov, cap.rosv) >>
          ELSE << Zero, Zero >>)
    ELSE IF boolean(p, "surfaceConfFuel2Dimensional")
    THEN expected
    ELSE << Zero, Zero >>

\* vSurfaceFireSpreadAtHead->update( wtdh ); vSurfaceFireSpreadAtVector->update( wtdv )
StoreSpreadRates(g, wtd) ==
    update(update(g, "vSurfaceFireSpreadAtHead", wtd[1]),
           "vSurfaceFireSpreadAtVector", wtd[2])

\* the primary model whatever the coverages
DominantModelPrimary(cov) == 0

\* int i = ( cov[0] > 0.999 ) ? 0 : 1
DominantModel(cov) == IF RGt(cov[1], DominanceThreshold) THEN 0 ELSE 1

\* the branch, were it to copy the two spread rates of model i as well
DominantOutputsAndRates(g, cap, depths, i) ==
    LET copied == Arrays
        vals == [v \in {ArrayVar[a] : a \in copied} |->
                    cap[CHOOSE a \in copied : ArrayVar[a] = v][i + 1]]
    IN  [g EXCEPT
          !.nativeValue =
              [v \in (DOMAIN @) \cup (DOMAIN vals) \cup {"vSurfaceFuelBedDepth"} |->
                  IF v = "vSurfaceFuelBedDepth" THEN depths[i + 1]
                  ELSE IF v \in DOMAIN vals THEN vals[v]
                  ELSE @[v]],
          !.activeItem = Put(@, "vSurfaceFireWindSpeedFlag", cap.wsf[i + 1]) ]

\* "If only 1 fuel is present (whether primary or secondary), use its values
\* exclusively": the branch with model i, depths being the two m_depth
DominantOutputs(g, cap, depths, i) ==
    LET copied == Arrays \ {"rosh", "rosv"}
        vals == [v \in {ArrayVar[a] : a \in copied} |->
                    cap[CHOOSE a \in copied : ArrayVar[a] = v][i + 1]]
    IN  [g EXCEPT
          !.nativeValue =
              [v \in (DOMAIN @) \cup (DOMAIN vals) \cup {"vSurfaceFuelBedDepth"} |->
                  IF v = "vSurfaceFuelBedDepth" THEN depths[i + 1]
                  ELSE IF v \in DOMAIN vals THEN vals[v]
                  ELSE @[v]],
          !.activeItem = Put(@, "vSurfaceFireWindSpeedFlag", cap.wsf[i + 1]) ]

\* the other operand of the comparison
LargerOfReversed(a, b) == IF RGt(a, b) THEN b ELSE a

\* ( a > b ) ? a : b
LargerOf(a, b) == IF RGt(a, b) THEN a ELSE b

\* ( a < b ) ? a : b
SmallerOf(a, b) == IF RLt(a, b) THEN a ELSE b

\* "Otherwise the wtd value depends upon Pat's criteria; could be wtd, min,
\* max, or primary"
RuleOutputs(g, cap, depths) ==
    LET larger == {"rxi", "hua", "flih", "fliv", "flh", "flv"}
        first  == {"mxd", "waf", "wmf", "ewsh", "ewsv", "flw"}
        vals == [v \in {ArrayVar[a] : a \in larger \cup first \cup {"wsl"}} |->
                    LET a == CHOOSE x \in Arrays : ArrayVar[x] = v
                    IN  IF a \in larger THEN LargerOf(cap[a][1], cap[a][2])
                        ELSE IF a = "wsl" THEN SmallerOf(cap[a][1], cap[a][2])
                        ELSE cap[a][1]]
    IN  [g EXCEPT
          !.nativeValue =
              [v \in (DOMAIN @) \cup (DOMAIN vals) \cup {"vSurfaceFuelBedDepth"} |->
                  IF v = "vSurfaceFuelBedDepth" THEN LargerOf(depths[1], depths[2])
                  ELSE IF v \in DOMAIN vals THEN vals[v]
                  ELSE @[v]],
          !.activeItem =
              Put(@, "vSurfaceFireWindSpeedFlag",
                  IF cap.wsf[1] # 0 \/ cap.wsf[2] # 0 THEN 1 ELSE 0) ]

-----------------------------------------------------------------------------
(* The state machine *)

BwIdle == [stage |-> "none"]

\* no ContainSim has been run
NoSim == [ran |-> "none"]

\* FBL_SurfaceFireForwardSpreadRate has not been called
NoCall == [called |-> FALSE]

Init ==
    /\ prop = {}
    /\ active = {} /\ isUserInput = {} /\ isUserOutput = {} /\ isConstant = {}
    /\ nativeValue = EmptyMap /\ activeItem = EmptyMap /\ label = EmptyMap
    /\ pc = 0 /\ calls = <<>> /\ nReconfigs = 0
    /\ bw = BwIdle
    /\ sim = NoSim
    /\ fbl = NoCall

SetGraph(g) ==
    /\ active' = g.active
    /\ isUserInput' = g.isUserInput
    /\ isUserOutput' = g.isUserOutput
    /\ isConstant' = g.isConstant
    /\ nativeValue' = g.nativeValue
    /\ activeItem' = g.activeItem
    /\ label' = g.label

\* the configuration is changed to c and reconfigure( release ) is entered
Enter(c) ==
    /\ pc = 0
    /\ prop' = c
    /\ pc' = 1
    /\ calls' = <<>>
    /\ nReconfigs' = nReconfigs + 1
    /\ UNCHANGED <<graphVars, bw, sim, fbl>>

Configure ==
    /\ nReconfigs < MaxReconfigures
    /\ \E c \in SeqConfigs : Enter(c)

ConfigureFresh ==
    /\ nReconfigs = 0
    /\ \E c \in FreshConfigs : Enter(c)

\* a module procedure of reconfigure() returns, leaving graph g
Return(name, g) ==
    /\ SetGraph(g)
    /\ calls' = Append(calls, name)
    /\ pc' = IF pc = Len(ModuleOrder) THEN 0 ELSE pc + 1
    /\ UNCHANGED <<prop, nReconfigs, bw, sim, fbl>>

\* reconfigure() calls its next module procedure
RunDocumentation ==
    /\ pc > 0 /\ ModuleOrder[pc] = "Documentation"
    /\ Return("Documentation", reconfigureDocumentation(Graph, prop))
RunSurface ==
    /\ pc > 0 /\ ModuleOrder[pc] = "Surface"
    /\ Return("Surface", reconfigureSurfaceModule(Graph, prop))
RunCrown ==
    /\ pc > 0 /\ ModuleOrder[pc] = "Crown"
    /\ Return("Crown", reconfigureCrownModule(Graph, prop))
RunSize ==
    /\ pc > 0 /\ ModuleOrder[pc] = "Size"
    /\ Return("Size", reconfigureSizeModule(Graph, prop))
RunContain ==
    /\ pc > 0 /\ ModuleOrder[pc] = "Contain"
    /\ Return("Contain", reconfigureContainModule(Graph, prop))
RunSpot ==
    /\ pc > 0 /\ ModuleOrder[pc] = "Spot"
    /\ Return("Spot", reconfigureSpotModule(Graph, prop))
RunScorch ==
    /\ pc > 0 /\ ModuleOrder[pc] = "Scorch"
    /\ Return("Scorch", reconfigureScorchModule(Graph, prop))
RunMortality ==
    /\ pc > 0 /\ ModuleOrder[pc] = "Mortality"
    /\ Return("Mortality", reconfigureMortalityModule(Graph, prop))
RunIgnition ==
    /\ pc > 0 /\ ModuleOrder[pc] = "Ignition"
    /\ Return("Ignition", reconfigureIgnitionModule(Graph, prop))
RunWeather ==
    /\ pc > 0 /\ ModuleOrder[pc] = "Weather"
    /\ Return("Weather", reconfigureWeatherModule(Graph, prop))
RunSafety ==
    /\ pc > 0 /\ ModuleOrder[pc] = "Safety"
    /\ Return("Safety", reconfigureSafetyModule(Graph, prop))

RunModules ==
    \/ RunDocumentation \/ RunSurface \/ RunCrown \/ RunSize \/ RunContain \/ RunSpot
    \/ RunScorch \/ RunMortality \/ RunIgnition \/ RunWeather \/ RunSafety

Next == Configure \/ RunModules

Spec == Init /\ [][Next]_vars

NextFresh == ConfigureFresh \/ RunModules

SpecFresh == Init /\ [][NextFresh]_vars

-----------------------------------------------------------------------------
(* A run of FuelBedWeighted on a configured worksheet *)

\* the values entered for vSurfaceFuelBedCoverage1
Coverages ==
    { Zero, Real(1, 2000), Real(3, 10), Real(1, 2), Real(999, 1000), Real(1999, 2000),
      One }

\* the values entered for the wind inputs of the worksheet
InputValue(v) == IF v = "vWindSpeedAtMidflame" THEN Real(32, 1) ELSE Real(2, 5)

\* Two-fuel-model configurations: each weighting method alone, area weighted
\* together with the other methods; three wind choices; the direction of
\* maximum spread and an entered direction; and the other two moisture choices
\* under the midflame wind; and the remaining two wind choices with the
\* area weighted method.
BlendConfigs ==
    { With(With(With(BaseConfig, FuelChoices, f), WindChoices, {w}), DirectionChoices, d) :
        f \in { {"surfaceConfFuelAreaWeighted"}, {"surfaceConfFuelHarmonicMean"},
                {"surfaceConfFuel2Dimensional"},
                {"surfaceConfFuelAreaWeighted", "surfaceConfFuelHarmonicMean"},
                TwoFuelChoices },
        w \in { "surfaceConfWindSpeedAtMidflame", "surfaceConfWindSpeedAt20FtCalc",
                "surfaceConfWindSpeedAt10M" },
        d \in { {"surfaceConfSpreadDirMax", "surfaceConfWindDirUpslope",
                 "surfaceConfDegreesWrtUpslope"},
                {"surfaceConfSpreadDirInput", "surfaceConfWindDirInput",
                 "surfaceConfDegreesWrtNorth"} } }
    \cup { With(With(BaseConfig, FuelChoices, {f}), MoistureChoices, {m}) :
             f \in {"surfaceConfFuelAreaWeighted", "surfaceConfFuelHarmonicMean"},
             m \in {"surfaceConfMoisLifeCat", "surfaceConfMoisScenario"} }
    \cup { With(With(With(BaseConfig, FuelChoices, {"surfaceConfFuelAreaWeighted"}),
                     WindChoices, {w}), SpreadDirChoices, {d}) :
             w \in {"surfaceConfWindSpeedAt20Ft", "surfaceConfWindSpeedAt10MCalc"},
             d \in SpreadDirChoices }

\* the first reconfigure() of the worksheet
ConfigureBlend ==
    /\ nReconfigs = 0
    /\ \E c \in BlendConfigs : Enter(c)

\* the function that derives a wind variable; the variable is a worksheet
\* input when that function is not active and the variable is not constant
Producer ==
    [ vWindAdjFactor |-> "fWindAdjFactor", vWindSpeedAtMidflame |-> "fWindSpeedAtMidflame" ]

\* The user enters the coverage, the two fuel models and the wind inputs.  A
\* fuel model whose head rate is 0.000001 is entered with a coverage in tenths,
\* which keeps the exact weighted sums small.
EnterInputs ==
    /\ pc = 0 /\ nReconfigs = 1 /\ bw.stage = "none"
    /\ \E c \in Coverages, k1 \in FuelModelIds, k2 \in FuelModelIds :
         /\ (SmallRate \in {NodeValue(k1, "vSurfaceFireSpreadAtHead"),
                            NodeValue(k2, "vSurfaceFireSpreadAtHead")})
               => c[2] <= 10
         /\ LET winds == {v \in {"vWindAdjFactor", "vWindSpeedAtMidflame"} :
                             Producer[v] \notin active /\ v \notin isConstant}
                vals  == winds \cup {"vSurfaceFuelBedCoverage1"}
                items == {"vSurfaceFuelBedModel1", "vSurfaceFuelBedModel2"}
            IN  /\ nativeValue' =
                      [v \in (DOMAIN nativeValue) \cup vals |->
                          IF v = "vSurfaceFuelBedCoverage1" THEN c
                          ELSE IF v \in winds THEN InputValue(v)
                          ELSE nativeValue[v]]
                /\ activeItem' =
                      [v \in (DOMAIN activeItem) \cup items |->
                          IF v = "vSurfaceFuelBedModel1" THEN k1
                          ELSE IF v = "vSurfaceFuelBedModel2" THEN k2
                          ELSE activeItem[v]]
    /\ bw' = [stage |-> "ready"]
    /\ UNCHANGED <<prop, active, isUserInput, isUserOutput, isConstant, label, pc, calls,
                   nReconfigs, sim, fbl>>

\* the local arrays before the loop has stored into them
Unset == [a \in Arrays \cup {"wsf"} |-> IF a = "wsf" THEN <<0, 0>> ELSE <<NaN, NaN>>]

\* fm[], cov[] and the declarations of the local arrays
FuelBedWeightedBegin ==
    /\ bw.stage = "ready"
    /\ "fSurfaceFuelBedWeighted" \in active
    /\ bw' = [ stage |-> "pass", i |-> 0,
               fm |-> << activeItem["vSurfaceFuelBedModel1"],
                         activeItem["vSurfaceFuelBedModel2"] >>,
               cov |-> Coverage(Graph), cap |-> Unset,
               expected |-> <<Zero, Zero>>, lbRatio |-> Zero, reads |-> {},
               steps |-> <<>>, called |-> <<>> ]
    /\ UNCHANGED <<prop, graphVars, pc, calls, nReconfigs, sim, fbl>>

\* one iteration of for ( int i=0; i<2; i++ )
FuelBedWeightedLoop ==
    /\ bw.stage = "pass"
    /\ LET g == ForEachModel(Graph, prop, bw.fm[bw.i + 1])
       IN  /\ SetGraph(g)
           /\ bw' = [bw EXCEPT !.cap = Capture(@, g, bw.i),
                               !.i = @ + 1,
                               !.steps = Append(@, <<"ForEachModel", bw.i>>),
                               !.called = Append(@, PassCalls(prop)),
                               !.stage = IF bw.i = 1 THEN "spread" ELSE "pass"]
    /\ UNCHANGED <<prop, pc, calls, nReconfigs, sim, fbl>>

\* the branch that calls FBL_SurfaceFireExpectedSpreadRate is taken
Calls2Dimensional(p) ==
    /\ ~boolean(p, "surfaceConfFuelAreaWeighted")
    /\ ~boolean(p, "surfaceConfFuelHarmonicMean")
    /\ boolean(p, "surfaceConfFuel2Dimensional")

\* The weighted spread rates are computed and stored; reads holds the equation
\* tree variables read on the way, steps the steps taken so far.
FuelBedWeightedSpread ==
    /\ bw.stage = "spread"
    /\ \E e \in (IF Calls2Dimensional(prop) THEN ExpectedRates \X ExpectedRates
                 ELSE {<<Zero, Zero>>}) :
         /\ SetGraph(StoreSpreadRates(Graph, SpreadRates(prop, bw.cov, bw.cap, e)))
         /\ bw' = [bw EXCEPT !.expected = e,
                             !.lbRatio = IF Calls2Dimensional(prop)
                                         THEN nativeValue["vSurfaceFireLengthToWidth"]
                                         ELSE @,
                             !.reads = IF Calls2Dimensional(prop)
                                       THEN {"vSurfaceFireLengthToWidth"} ELSE @,
                             !.steps = Append(@, <<"Spread">>),
                             !.stage = "outputs"]
    /\ UNCHANGED <<prop, pc, calls, nReconfigs, sim, fbl>>

\* if ( cov[0] > 0.999 || cov[1] > 0.999 )
Dominance(cov) == RGt(cov[1], DominanceThreshold) \/ RGt(cov[2], DominanceThreshold)

FuelBedWeightedDominant ==
    /\ bw.stage = "outputs"
    /\ Dominance(bw.cov)
    /\ SetGraph(DominantOutputs(Graph, bw.cap, <<Depth(bw.fm[1]), Depth(bw.fm[2])>>,
                                DominantModel(bw.cov)))
    /\ bw' = [bw EXCEPT !.stage = "done", !.steps = Append(@, <<"Dominant">>)]
    /\ UNCHANGED <<prop, pc, calls, nReconfigs, sim, fbl>>

FuelBedWeightedRules ==
    /\ bw.stage = "outputs"
    /\ ~Dominance(bw.cov)
    /\ SetGraph(RuleOutputs(Graph, bw.cap, <<Depth(bw.fm[1]), Depth(bw.fm[2])>>))
    /\ bw' = [bw EXCEPT !.stage = "done", !.steps = Append(@, <<"Rules">>)]
    /\ UNCHANGED <<prop, pc, calls, nReconfigs, sim, fbl>>

FuelBedWeighted ==
    \/ FuelBedWeightedBegin
    \/ FuelBedWeightedLoop
    \/ FuelBedWeightedSpread
    \/ FuelBedWeightedDominant
    \/ FuelBedWeightedRules

NextBlend == ConfigureBlend \/ RunModules \/ EnterInputs \/ FuelBedWeighted

SpecBlend == Init /\ [][NextBlend]_vars

-----------------------------------------------------------------------------
(* EqCalc::ContainFF, ContainFFSingle, MapScale and SiteUpslopeDirFromNorth *)

\* Crosswalk from Contain status codes 0..7 to BehavePlus status codes
\* (0 Contained, 1 Withdrawn, 2 Escaped); entry m_status + 1
Status == <<2, 2, 2, 0, 1, 2, 2, 2>>

\* ContainFF keeping the simulator's final size when the fire is not contained
ContainFFKeepsSize(g, r) ==
    LET status == Status[r.m_status + 1]
        final == IF status # 0 /\ status # 3
                 THEN (IF RGt(r.m_finalLine, Zero) THEN 1 ELSE 2)
                 ELSE status
    IN  updateItem(update(update(g, "vContainLine", r.m_finalLine),
                          "vContainSize", r.m_finalSize),
                   "vContainStatus", final)

\* EqCalc::ContainFF after sim->run() has left results r; the other outputs
\* are copies of simulator fields no decision of the function reads
ContainFF(g, r) ==
    LET status == Status[r.m_status + 1]
        notContained == status # 0 /\ status # 3
        finalSize == IF notContained THEN Real(-1, 1) ELSE r.m_finalSize
        final == IF notContained
                 THEN (IF RGt(r.m_finalLine, Zero) THEN 1 ELSE 2)
                 ELSE status
    IN  updateItem(update(update(g, "vContainLine", r.m_finalLine),
                          "vContainSize", finalSize),
                   "vContainStatus", final)

\* ContainFFSingle storing the crosswalk entry whatever fireline was built
ContainFFSingleTableOnly(g, r) ==
    LET status == Status[r.m_status + 1]
        finalSize == IF status # 0 /\ status # 3 THEN Real(-1, 1) ELSE r.m_finalSize
    IN  updateItem(update(update(g, "vContainLine", r.m_finalLine),
                          "vContainSize", finalSize),
                   "vContainStatus", status)

\* EqCalc::ContainFFSingle after sim->run() has left results r
ContainFFSingle(g, r) ==
    LET status == Status[r.m_status + 1]
        notContained == status # 0 /\ status # 3
        finalSize == IF notContained THEN Real(-1, 1) ELSE r.m_finalSize
        final == IF notContained
                 THEN (IF RGt(r.m_finalLine, Zero) THEN 1 ELSE 2)
                 ELSE status
    IN  updateItem(update(update(g, "vContainLine", r.m_finalLine),
                          "vContainSize", finalSize),
                   "vContainStatus", final)

\* the small-number threshold; its value is set outside the sources at hand,
\* and the branches taken are the same for any small positive value
SMIDGEN == Real(1, 10000)

\* MapScale guarding against a zero denominator only
MapScaleZeroOnly(g) ==
    LET denom == g.nativeValue["vMapFraction"]
        scale == IF IsZero(denom) THEN Zero ELSE RDiv(Real(63360, 1), denom)
    IN  update(g, "vMapScale", scale)

\* EqCalc::MapScale
MapScale(g) ==
    LET denom == g.nativeValue["vMapFraction"]
        scale == IF RLt(denom, SMIDGEN) THEN Zero ELSE RDiv(Real(63360, 1), denom)
    IN  update(g, "vMapScale", scale)

\* SiteUpslopeDirFromNorth subtracting only above 180 degrees
SiteUpslopeDirFromNorthAbove180(g) ==
    LET aspect == g.nativeValue["vSiteAspectDirFromNorth"]
        upslope == IF RGt(aspect, Real(180, 1))
                   THEN RSub(aspect, Real(180, 1))
                   ELSE RAdd(aspect, Real(180, 1))
    IN  update(g, "vSiteUpslopeDirFromNorth", upslope)

\* EqCalc::SiteUpslopeDirFromNorth
SiteUpslopeDirFromNorth(g) ==
    LET aspect == g.nativeValue["vSiteAspectDirFromNorth"]
        upslope == IF RGt(aspect, Real(180, 1)) \/ aspect = Real(180, 1)
                   THEN RSub(aspect, Real(180, 1))
                   ELSE RAdd(aspect, Real(180, 1))
    IN  update(g, "vSiteUpslopeDirFromNorth", upslope)

\* the results a ContainSim run can leave: every status code, with and
\* without fireline built
SimResults ==
    [ m_status : 0..7,
      m_finalLine : {Zero, Real(25, 2), Real(40, 1)},
      m_finalSize : {Real(3, 2), Real(12, 1)} ]

\* map representative fractions and aspects entered for a run
MapFractions ==
    {Zero, Real(1, 20000), Real(1, 10000), Real(1, 2), One, Real(1000, 1), Real(24000, 1)}

Aspects ==
    {Zero, Real(45, 1), Real(90, 1), Real(359, 2), Real(180, 1), Real(200, 1),
     Real(270, 1), Real(719, 2), Real(360, 1)}

\* configurations with the Size and Contain modules on, either resources
\* choice and either degrees choice
CalcConfigs ==
    { With(With(BaseConfig \cup {"sizeModuleActive", "containModuleActive"},
                {"containConfResourcesSingle"}, r),
           DegreesChoices, d) :
        r \in { {"containConfResourcesSingle"}, {"containConfResourcesMultiple"} },
        d \in { {"surfaceConfDegreesWrtNorth"}, {"surfaceConfDegreesWrtUpslope"} } }

ConfigureCalc ==
    /\ nReconfigs = 0
    /\ \E c \in CalcConfigs : Enter(c)

Configured == pc = 0 /\ nReconfigs = 1

\* the user enters the map fraction and the aspect
EnterCalcInputs ==
    /\ Configured
    /\ "vMapFraction" \notin DOMAIN nativeValue
    /\ \E f \in MapFractions, a \in Aspects :
          nativeValue' = Put(Put(nativeValue, "vMapFraction", f),
                             "vSiteAspectDirFromNorth", a)
    /\ UNCHANGED <<prop, active, isUserInput, isUserOutput, isConstant, activeItem, label,
                   pc, calls, nReconfigs, bw, sim, fbl>>

RunContainFF ==
    /\ Configured /\ "fContainFF" \in active /\ sim = NoSim
    /\ \E r \in SimResults :
          /\ sim' = [ran |-> "ContainFF", m_status |-> r.m_status,
                     m_finalLine |-> r.m_finalLine, m_finalSize |-> r.m_finalSize]
          /\ SetGraph(ContainFF(Graph, r))
    /\ UNCHANGED <<prop, pc, calls, nReconfigs, bw, fbl>>

RunContainFFSingle ==
    /\ Configured /\ "fContainFFSingle" \in active /\ sim = NoSim
    /\ \E r \in SimResults :
          /\ sim' = [ran |-> "ContainFFSingle", m_status |-> r.m_status,
                     m_finalLine |-> r.m_finalLine, m_finalSize |-> r.m_finalSize]
          /\ SetGraph(ContainFFSingle(Graph, r))
    /\ UNCHANGED <<prop, pc, calls, nReconfigs, bw, fbl>>

RunMapScale ==
    /\ Configured /\ "fMapScale" \in active
    /\ "vMapFraction" \in DOMAIN nativeValue
    /\ "vMapScale" \notin DOMAIN nativeValue
    /\ SetGraph(MapScale(Graph))
    /\ UNCHANGED <<prop, pc, calls, nReconfigs, bw, sim, fbl>>

RunSiteUpslopeDirFromNorth ==
    /\ Configured /\ "fSiteUpslopeDirFromNorth" \in active
    /\ "vSiteAspectDirFromNorth" \in DOMAIN nativeValue
    /\ "vSiteUpslopeDirFromNorth" \notin DOMAIN nativeValue
    /\ SetGraph(SiteUpslopeDirFromNorth(Graph))
    /\ UNCHANGED <<prop, pc, calls, nReconfigs, bw, sim, fbl>>

NextCalc ==
    \/ ConfigureCalc \/ RunModules \/ EnterCalcInputs
    \/ RunContainFF \/ RunContainFFSingle \/ RunMapScale \/ RunSiteUpslopeDirFromNorth

SpecCalc == Init /\ [][NextCalc]_vars

-----------------------------------------------------------------------------
(* EqCalc::WindDirFromUpslope *)

\* EqCalc::WindDirFromUpslope
WindDirFromUpslope(g) ==
    LET sd == g.nativeValue["vSiteUpslopeDirFromNorth"]
        wd0 == RSub(g.nativeValue["vWindDirFromNorth"], Real(180, 1))
        wd == IF RLt(wd0, Zero) THEN RAdd(wd0, Real(360, 1)) ELSE wd0
        dd0 == RSub(wd, sd)
        dd1 == IF RLt(dd0, Zero) THEN RAdd(dd0, Real(360, 1)) ELSE dd0
        dd == IF RLt(Real(Abs(dd1[1]), dd1[2]), Real(1, 2)) THEN Zero ELSE dd1
    IN  update(g, "vWindDirFromUpslope", dd)

\* source wind directions entered for a run
WindDirs ==
    {Zero, Real(90, 1), Real(719, 4), Real(180, 1), Real(721, 4), Real(200, 1),
     Real(1439, 4), Real(360, 1)}

\* configurations whose directions are entered with respect to north or upslope
SiteConfigs ==
    { With(BaseConfig, DirectionChoices, d) : d \in DirectionCombos }

ConfigureSite ==
    /\ nReconfigs = 0
    /\ \E c \in SiteConfigs : Enter(c)

\* the user enters the aspect and the source wind direction
EnterSiteInputs ==
    /\ Configured
    /\ "vSiteAspectDirFromNorth" \notin DOMAIN nativeValue
    /\ \E a \in Aspects, w \in WindDirs :
          nativeValue' = Put(Put(nativeValue, "vSiteAspectDirFromNorth", a),
                             "vWindDirFromNorth", w)
    /\ UNCHANGED <<prop, active, isUserInput, isUserOutput, isConstant, activeItem, label,
                   pc, calls, nReconfigs, bw, sim, fbl>>

RunWindDirFromUpslope ==
    /\ Configured /\ "fWindDirFromUpslope" \in active
    /\ "vSiteUpslopeDirFromNorth" \in DOMAIN nativeValue
    /\ "vWindDirFromNorth" \in DOMAIN nativeValue
    /\ "vWindDirFromUpslope" \notin DOMAIN nativeValue
    /\ SetGraph(WindDirFromUpslope(Graph))
    /\ UNCHANGED <<prop, pc, calls, nReconfigs, bw, sim, fbl>>

NextSite ==
    \/ ConfigureSite \/ RunModules \/ EnterSiteInputs
    \/ RunSiteUpslopeDirFromNorth \/ RunWindDirFromUpslope

SpecSite == Init /\ [][NextSite]_vars

-----------------------------------------------------------------------------
(* EqCalc::FuelBedParms, FuelBedIntermediates and FireSpreadAtHead *)

\* static const int MaxParts
MaxParts == 8

\* vSurfaceFuelLoad[p] and vSurfaceFuelLife[p], entry p + 1
FuelLoad ==
    << "vSurfaceFuelLoad0", "vSurfaceFuelLoad1", "vSurfaceFuelLoad2", "vSurfaceFuelLoad3",
       "vSurfaceFuelLoad4", "vSurfaceFuelLoad5", "vSurfaceFuelLoad6", "vSurfaceFuelLoad7" >>

FuelLife ==
    << "vSurfaceFuelLife0", "vSurfaceFuelLife1", "vSurfaceFuelLife2", "vSurfaceFuelLife3",
       "vSurfaceFuelLife4", "vSurfaceFuelLife5", "vSurfaceFuelLife6", "vSurfaceFuelLife7" >>

\* EqCalc::FuelBedParms: the life codes and loads of the particles; the
\* density, heat, savr, stot and seff arrays it also fills are only handed on
\* to the fuel bed formulas
FuelBedParms(g) ==
    LET lives == <<0, 0, 0, 1, 2, 0, 0, 0>>
        loads == << g.nativeValue["vSurfaceFuelLoadDead1"],
                    g.nativeValue["vSurfaceFuelLoadDead10"],
                    g.nativeValue["vSurfaceFuelLoadDead100"],
                    g.nativeValue["vSurfaceFuelLoadLiveHerb"],
                    g.nativeValue["vSurfaceFuelLoadLiveWood"],
                    Zero, Zero, Zero >>
        particles == {FuelLoad[i] : i \in 1..MaxParts}
        codes == {FuelLife[i] : i \in 1..MaxParts}
        Index(seq, v) == CHOOSE i \in 1..MaxParts : seq[i] = v
    IN  [g EXCEPT
           !.nativeValue = [v \in (DOMAIN @) \cup particles |->
                              IF v \in particles THEN loads[Index(FuelLoad, v)] ELSE @[v]],
           !.activeItem = [v \in (DOMAIN @) \cup codes |->
                              IF v \in codes THEN lives[Index(FuelLife, v)] ELSE @[v]]]

\* the sum of load[p] .. load[MaxParts - 1] over the particles whose life code
\* is in codes
RECURSIVE LoadOfLife(_, _, _, _)
LoadOfLife(load, life, codes, p) ==
    IF p >= MaxParts THEN Zero
    ELSE RAdd(IF life[p] \in codes THEN load[p] ELSE Zero,
              LoadOfLife(load, life, codes, p + 1))

\* the transfer fraction taken whatever the transfer equation
TransferFractionAnyEquation(g) == g.nativeValue["vSurfaceFuelLoadTransferFraction"]

\* double fraction of FuelBedIntermediates: 0 unless a transfer equation is set
TransferFraction(g) ==
    IF g.activeItem["vSurfaceFuelLoadTransferEq"] # 0
    THEN g.nativeValue["vSurfaceFuelLoadTransferFraction"] ELSE Zero

\* the live load left as it was by the transfer
LiveLoadKept(liveLoad, moved) == liveLoad

\* liveLoad -= load[DeadHerb]
LiveLoadLess(liveLoad, moved) == RSub(liveLoad, moved)

\* EqCalc::FuelBedIntermediates: the loads and load fractions; sigma, bulk
\* density, packing ratio and beta ratio are results of
\* FBL_SurfaceFuelBedIntermediates that no decision of the function reads
FuelBedIntermediates(g) ==
    LET load == [p \in 0..(MaxParts - 1) |-> g.nativeValue[FuelLoad[p + 1]]]
        life == [p \in 0..(MaxParts - 1) |-> g.activeItem[FuelLife[p + 1]]]
        fraction == TransferFraction(g)
        LiveHerb == 3
        DeadHerb == 5
        transfer == RGt(fraction, Real(1, 100000))
        deadHerb == IF transfer THEN RMul(fraction, load[LiveHerb]) ELSE load[DeadHerb]
        liveHerb == IF transfer THEN RSub(load[LiveHerb], deadHerb) ELSE load[LiveHerb]
        deadLoad == IF transfer THEN RAdd(LoadOfLife(load, life, {0, 3}, 0), deadHerb)
                    ELSE LoadOfLife(load, life, {0, 3}, 0)
        liveLoad == IF transfer THEN LiveLoadLess(LoadOfLife(load, life, {1, 2}, 0), deadHerb)
                    ELSE LoadOfLife(load, life, {1, 2}, 0)
        totalLoad == RAdd(deadLoad, liveLoad)
        deadFraction == IF RLt(totalLoad, SMIDGEN) THEN Zero ELSE RDiv(deadLoad, totalLoad)
    IN  [g EXCEPT !.nativeValue =
            [v \in (DOMAIN @) \cup
                   { "vSurfaceFuelBedDeadFraction", "vSurfaceFuelBedLiveFraction",
                     "vSurfaceFuelLoadDeadHerb", "vSurfaceFuelLoadUndeadHerb",
                     "vSurfaceFuelLoadDead", "vSurfaceFuelLoadLive" } |->
                IF v = "vSurfaceFuelBedDeadFraction" THEN deadFraction
                ELSE IF v = "vSurfaceFuelBedLiveFraction" THEN RSub(One, deadFraction)
                ELSE IF v = "vSurfaceFuelLoadDeadHerb" THEN deadHerb
                ELSE IF v = "vSurfaceFuelLoadUndeadHerb" THEN liveHerb
                ELSE IF v = "vSurfaceFuelLoadDead" THEN deadLoad
                ELSE IF v = "vSurfaceFuelLoadLive" THEN liveLoad
                ELSE @[v]]]

\* FireSpreadAtHead taking the wind limit switch as configured
applyWindLimitAsConfigured(p) == boolean(p, "surfaceConfWindLimitApplied")

\* bool applyWindLimit of EqCalc::FireSpreadAtHead, as passed to
\* FBL_SurfaceFireForwardSpreadRate
applyWindLimit(p) ==
    IF boolean(p, "surfaceConfFuelAspen") THEN FALSE
    ELSE boolean(p, "surfaceConfWindLimitApplied")

\* EqCalc::FireSpreadAtHead storing the results r of FBL_SurfaceFireForwardSpreadRate
FireSpreadAtHead(g, r) ==
    LET outs == { "vSurfaceFireSpreadAtHead", "vSurfaceFireMaxDirFromUpslope",
                  "vSurfaceFireEffWindAtHead", "vSurfaceFireWindSpeedLimit",
                  "vSurfaceFireWindFactor", "vSurfaceFireSlopeFactor" }
        g1 == [g EXCEPT !.nativeValue =
                 [v \in (DOMAIN @) \cup outs |->
                    IF v = "vSurfaceFireSpreadAtHead" THEN r.rosMax
                    ELSE IF v = "vSurfaceFireMaxDirFromUpslope" THEN r.dirMax
                    ELSE IF v = "vSurfaceFireEffWindAtHead" THEN r.effWind
                    ELSE IF v = "vSurfaceFireWindSpeedLimit" THEN r.maxWind
                    ELSE IF v = "vSurfaceFireWindFactor" THEN r.windFactor
                    ELSE IF v = "vSurfaceFireSlopeFactor" THEN r.slopeFactor
                    ELSE @[v]]]
    IN  updateItem(g1, "vSurfaceFireWindSpeedFlag", r.windLimit)

\* loads, transfer equations and transfer fractions entered for a run
FuelInputs ==
    [ dead1 : {Zero, Real(1, 20000), Real(1, 10)},
      dead10 : {Zero, Real(1, 5)},
      liveHerb : {Zero, Real(3, 10)},
      liveWood : {Zero, Real(1, 4)},
      transferEq : {0, 1},
      fraction : {Zero, Real(1, 100000), Real(1, 50000), Real(1, 2), One} ]

\* results FBL_SurfaceFireForwardSpreadRate hands back: wind limit not
\* exceeded, and exceeded
ForwardSpreadResults ==
    { [rosMax |-> Real(7, 1), dirMax |-> Zero, effWind |-> Real(5, 1),
       maxWind |-> Real(9, 1), windLimit |-> 0, windFactor |-> Real(3, 1),
       slopeFactor |-> Zero],
      [rosMax |-> Real(11, 1), dirMax |-> Zero, effWind |-> Real(9, 1),
       maxWind |-> Real(9, 1), windLimit |-> 1, windFactor |-> Real(6, 1),
       slopeFactor |-> Zero] }

\* fuel models, fuel parameters, aspen, and aspen set beside fuel parameters,
\* each with the wind limit applied and not applied
FuelConfigs ==
    { With(With(BaseConfig, FuelChoices, f), {"surfaceConfWindLimitApplied"}, w) :
        f \in { {"surfaceConfFuelModels"}, {"surfaceConfFuelParms"}, {"surfaceConfFuelAspen"},
                {"surfaceConfFuelParms", "surfaceConfFuelAspen"} },
        w \in { {"surfaceConfWindLimitApplied"}, {} } }

ConfigureFuel ==
    /\ nReconfigs = 0
    /\ \E c \in FuelConfigs : Enter(c)

\* the fuel parameters are entered (or come from the fuel model); the
\* transfer equation and fraction only when reconfigure() left them enterable
EnterFuelInputs ==
    /\ Configured
    /\ "vSurfaceFuelLoadLiveHerb" \notin DOMAIN nativeValue
    /\ \E i \in FuelInputs :
          LET n1 == Put(Put(Put(Put(Put(nativeValue,
                        "vSurfaceFuelLoadDead1", i.dead1),
                        "vSurfaceFuelLoadDead10", i.dead10),
                        "vSurfaceFuelLoadDead100", Zero),
                        "vSurfaceFuelLoadLiveHerb", i.liveHerb),
                        "vSurfaceFuelLoadLiveWood", i.liveWood)
          IN  IF "vSurfaceFuelLoadTransferEq" \in isConstant
              THEN /\ i.transferEq = 0 /\ i.fraction = Zero
                   /\ nativeValue' = n1
                   /\ UNCHANGED activeItem
              ELSE /\ nativeValue' = Put(n1, "vSurfaceFuelLoadTransferFraction", i.fraction)
                   /\ activeItem' = Put(activeItem, "vSurfaceFuelLoadTransferEq",
                                        i.transferEq)
    /\ UNCHANGED <<prop, active, isUserInput, isUserOutput, isConstant, label,
                   pc, calls, nReconfigs, bw, sim, fbl>>

RunFuelBedParms ==
    /\ Configured /\ "fSurfaceFuelBedParms" \in active
    /\ "vSurfaceFuelLoadLiveHerb" \in DOMAIN nativeValue
    /\ FuelLoad[1] \notin DOMAIN nativeValue
    /\ SetGraph(FuelBedParms(Graph))
    /\ UNCHANGED <<prop, pc, calls, nReconfigs, bw, sim, fbl>>

RunFuelBedIntermediates ==
    /\ Configured /\ "fSurfaceFuelBedIntermediates" \in active
    /\ FuelLoad[1] \in DOMAIN nativeValue
    /\ "vSurfaceFuelLoadDead" \notin DOMAIN nativeValue
    /\ SetGraph(FuelBedIntermediates(Graph))
    /\ UNCHANGED <<prop, pc, calls, nReconfigs, bw, sim, fbl>>

RunFireSpreadAtHead ==
    /\ Configured /\ "fSurfaceFireSpreadAtHead" \in active
    /\ fbl = NoCall
    /\ \E r \in ForwardSpreadResults :
          /\ fbl' = [called |-> TRUE, applyWindLimit |-> applyWindLimit(prop)]
          /\ SetGraph(FireSpreadAtHead(Graph, r))
    /\ UNCHANGED <<prop, pc, calls, nReconfigs, bw, sim>>

NextFuel ==
    \/ ConfigureFuel \/ RunModules \/ EnterFuelInputs
    \/ RunFuelBedParms \/ RunFuelBedIntermediates \/ RunFireSpreadAtHead

SpecFuel == Init /\ [][NextFuel]_vars

-----------------------------------------------------------------------------
(* Module membership, read off the module procedures *)

\* the module procedures that have a master flag
ModuleNames == {ModuleOrder[i] : i \in 2..Len(ModuleOrder)}

MasterFlag ==
    [ Surface |-> "surfaceModuleActive", Crown |-> "crownModuleActive",
      Size |-> "sizeModuleActive", Contain |-> "containModuleActive",
      Spot |-> "spotModuleActive", Scorch |-> "scorchModuleActive",
      Mortality |-> "mortalityModuleActive", Ignition |-> "ignitionModuleActive",
      Weather |-> "weatherModuleActive", Safety |-> "safetyModuleActive" ]

\* configurations that take every branch of every module procedure: those of
\* Spec, and the modules the procedures test switched on and off under every wind
\* choice and both sets of two-way choices
ProbeConfigs ==
    SeqConfigs
    \cup { With(With(With(BaseConfig, OtherDefaults, d), ModuleFlags, m), WindChoices, {w}) :
             d \in {OtherDefaults, AltDefaults},
             m \in SUBSET { "surfaceModuleActive", "crownModuleActive", "sizeModuleActive",
                            "scorchModuleActive" },
             w \in WindChoices }

\* the functions module m's procedure activates, and the variables it makes
\* user outputs, in some configuration that has the module switched on
ModuleFunctions ==
    [ m \in ModuleNames |->
        UNION { Procedure(m, FreshGraph, c \cup {MasterFlag[m]}).active :
                  c \in ProbeConfigs } ]

ModuleOutputVars ==
    [ m \in ModuleNames |->
        UNION { Procedure(m, FreshGraph, c \cup {MasterFlag[m]}).isUserOutput :
                  c \in ProbeConfigs } ]

\* the functions and output variables no other module's procedure sets
OwnFunctions ==
    [ m \in ModuleNames |->
        ModuleFunctions[m] \ UNION {ModuleFunctions[o] : o \in ModuleNames \ {m}} ]

OwnOutputVars ==
    [ m \in ModuleNames |->
        ModuleOutputVars[m] \ UNION {ModuleOutputVars[o] : o \in ModuleNames \ {m}} ]

\* reconfigure() has returned from its first call on the fresh graph
FirstReconfigureDone == pc = 0 /\ nReconfigs = 1

-----------------------------------------------------------------------------
(* Claim C1 *)

\* C1 as stated: after the first reconfigure() of a fresh graph, a module whose
\* master flag is false has none of the functions its procedure activates active
\* and none of the variables its procedure outputs marked as user output.
C1_AsStated ==
    FirstReconfigureDone =>
        \A m \in ModuleNames :
            ~boolean(prop, MasterFlag[m]) =>
                /\ active \cap ModuleFunctions[m] = {}
                /\ isUserOutput \cap ModuleOutputVars[m] = {}

\* C1 (amended): after the first reconfigure() of a fresh graph, a module whose
\* master flag is false has none of the functions that only its own procedure
\* activates active, and none of the variables that only its own procedure
\* outputs marked as user output; functions and variables it shares with a
\* module that is switched on may be set by that module.
C1_InactiveModuleOwnStateClear ==
    FirstReconfigureDone =>
        \A m \in ModuleNames :
            ~boolean(prop, MasterFlag[m]) =>
                /\ active \cap OwnFunctions[m] = {}
                /\ isUserOutput \cap OwnOutputVars[m] = {}

\* Scorch is off, Mortality and Surface are on: the scorch height function that
\* Scorch shares with Mortality is active, Scorch's own flame length variant is not.
C1_Witness ==
    /\ FirstReconfigureDone
    /\ ~boolean(prop, "scorchModuleActive")
    /\ boolean(prop, "mortalityModuleActive") /\ boolean(prop, "surfaceModuleActive")
    /\ "fSurfaceFireScorchHtFromFliAtVector" \in active \cap ModuleFunctions["Scorch"]
    /\ OwnFunctions["Scorch"] # {}
    /\ \A m \in ModuleNames : OwnFunctions[m] # {} /\ OwnOutputVars[m] # {}

-----------------------------------------------------------------------------
(* Claim C2 *)

OptionGroups ==
    { FuelChoices, LoadTransferChoices, MoistureChoices, WindChoices, SpreadDirChoices,
      WindDirChoices, DegreesChoices, SlopeChoices, SlopeUnitChoices }

\* exactly one choice flag is true in each Surface option group
WellFormed(p) == \A grp \in OptionGroups : Cardinality(grp \cap p) = 1

\* the functions the branches of each option group switch
FuelFunctions ==
    { "fSurfaceFuelBedModel", "fSurfaceFuelBedParms", "fSurfaceFuelBedWeighted",
      "fSurfaceFuelPalmettoModel", "fSurfaceFuelPalmettoParms", "fSurfaceFuelAspenModel",
      "fSurfaceFuelAspenParms", "fTreeMortalityRateAspenAtVector" }
LoadTransferFunctions == {"fSurfaceFuelLoadTransferFraction"}
MoistureFunctions == {"fSurfaceFuelMoisLifeClass", "fSurfaceFuelMoisScenarioModel"}
WindFunctions == {"fWindSpeedAt20Ft", "fWindSpeedAtMidflame", "fWindAdjFactor"}
DirectionFunctions ==
    {"fSurfaceFireVectorDirFromUpslope", "fWindDirFromUpslope", "fSiteUpslopeDirFromNorth"}
SlopeFunctions == {"fMapSlope", "fSiteSlopeFraction"}

\* the functions the true choice of each group activates
FuelChoiceFunctions(p) ==
    IF boolean(p, "surfaceConfFuelModels") THEN {"fSurfaceFuelBedModel", "fSurfaceFuelBedParms"}
    ELSE IF boolean(p, "surfaceConfFuelParms") THEN {"fSurfaceFuelBedParms"}
    ELSE IF p \cap TwoFuelChoices # {} THEN {"fSurfaceFuelBedWeighted"}
    ELSE IF boolean(p, "surfaceConfFuelPalmettoGallberry")
         THEN {"fSurfaceFuelPalmettoModel", "fSurfaceFuelPalmettoParms"}
    ELSE {"fSurfaceFuelAspenModel", "fSurfaceFuelAspenParms", "fTreeMortalityRateAspenAtVector"}

LoadTransferChoiceFunctions(p) ==
    IF boolean(p, "surfaceConfLoadTransferCalc") THEN {"fSurfaceFuelLoadTransferFraction"}
    ELSE {}

MoistureChoiceFunctions(p) ==
    IF boolean(p, "surfaceConfMoisLifeCat") THEN {"fSurfaceFuelMoisLifeClass"}
    ELSE IF boolean(p, "surfaceConfMoisScenario") THEN {"fSurfaceFuelMoisScenarioModel"}
    ELSE {}

WindChoiceFunctions(p) ==
    IF boolean(p, "surfaceConfWindSpeedAtMidflame") THEN {}
    ELSE IF boolean(p, "surfaceConfWindSpeedAt20Ft") THEN {"fWindSpeedAtMidflame"}
    ELSE IF boolean(p, "surfaceConfWindSpeedAt20FtCalc")
         THEN {"fWindSpeedAtMidflame", "fWindAdjFactor"}
    ELSE IF boolean(p, "surfaceConfWindSpeedAt10M")
         THEN {"fWindSpeedAt20Ft", "fWindSpeedAtMidflame"}
    ELSE {"fWindSpeedAt20Ft", "fWindSpeedAtMidflame", "fWindAdjFactor"}

DirectionChoiceFunctions(p) ==
    IF ~boolean(p, "surfaceConfDegreesWrtNorth") THEN {}
    ELSE {"fSiteUpslopeDirFromNorth"}
         \cup (IF boolean(p, "surfaceConfSpreadDirInput")
               THEN {"fSurfaceFireVectorDirFromUpslope"} ELSE {})
         \cup (IF boolean(p, "surfaceConfWindDirInput") THEN {"fWindDirFromUpslope"} ELSE {})

SlopeChoiceFunctions(p) ==
    IF boolean(p, "surfaceConfSlopeDerived") THEN {"fMapSlope", "fSiteSlopeFraction"}
    ELSE IF boolean(p, "surfaceConfSlopeDegrees") THEN {"fSiteSlopeFraction"}
    ELSE {}

\* the first reconfigure() of a fresh graph is done, Surface on, configuration well-formed
FirstSurfaceWellFormed ==
    FirstReconfigureDone /\ boolean(prop, "surfaceModuleActive") /\ WellFormed(prop)

\* C2 as stated: after the first reconfigure() of a fresh graph with Surface
\* active and a well-formed configuration, in every option group the active
\* functions of the group are exactly those of the group's true choice.
C2_AsStated ==
    FirstSurfaceWellFormed =>
        /\ active \cap FuelFunctions = FuelChoiceFunctions(prop)
        /\ active \cap LoadTransferFunctions = LoadTransferChoiceFunctions(prop)
        /\ active \cap MoistureFunctions = MoistureChoiceFunctions(prop)
        /\ active \cap WindFunctions = WindChoiceFunctions(prop)
        /\ active \cap DirectionFunctions = DirectionChoiceFunctions(prop)
        /\ active \cap SlopeFunctions = SlopeChoiceFunctions(prop)

\* C2 (amended): after the first reconfigure() of a fresh graph with Surface
\* active and a well-formed configuration, the active functions of the fuel,
\* moisture, wind, direction and slope groups are exactly those of the group's
\* true choice (fuel models: model and parms; fuel parms: parms alone; two fuel
\* models: the weighted function alone; Palmetto-Gallberry: its two functions;
\* Aspen: its functions); the load transfer function is active exactly when the
\* load transfer is calculated or the fuel choice is Palmetto-Gallberry or Aspen.
C2_ChoiceFunctionsActive ==
    FirstSurfaceWellFormed =>
        /\ active \cap FuelFunctions = FuelChoiceFunctions(prop)
        /\ active \cap LoadTransferFunctions =
             IF boolean(prop, "surfaceConfFuelPalmettoGallberry")
                \/ boolean(prop, "surfaceConfFuelAspen")
             THEN LoadTransferFunctions
             ELSE LoadTransferChoiceFunctions(prop)
        /\ active \cap MoistureFunctions = MoistureChoiceFunctions(prop)
        /\ active \cap WindFunctions = WindChoiceFunctions(prop)
        /\ active \cap DirectionFunctions = DirectionChoiceFunctions(prop)
        /\ active \cap SlopeFunctions = SlopeChoiceFunctions(prop)

\* a two-fuel-model choice with life category moisture and a calculated 10-m wind:
\* the weighted function is the only fuel function active, and the moisture and
\* wind functions its branch deactivated are active again
C2_Witness ==
    /\ FirstSurfaceWellFormed
    /\ boolean(prop, "surfaceConfFuelHarmonicMean")
    /\ boolean(prop, "surfaceConfMoisLifeCat")
    /\ boolean(prop, "surfaceConfWindSpeedAt10MCalc")
    /\ active \cap FuelFunctions = {"fSurfaceFuelBedWeighted"}
    /\ "fSurfaceFuelMoisLifeClass" \in active
    /\ WindFunctions \subseteq active

-----------------------------------------------------------------------------
(* Claim C3 *)

\* the function active flags and the three masks of a graph
FlagsAndMasks(g) == <<g.active, g.isUserInput, g.isUserOutput, g.isConstant>>

\* a reconfigure() call has returned under a well-formed configuration with Surface on
ReconfigureDoneWellFormed ==
    pc = 0 /\ nReconfigs >= 1 /\ boolean(prop, "surfaceModuleActive") /\ WellFormed(prop)

\* C3 as stated: whenever reconfigure() has returned under a well-formed
\* configuration with Surface active, whatever configurations came before, the
\* active flags and the masks equal those one reconfigure() with that
\* configuration gives a freshly constructed graph.
C3_AsStated ==
    ReconfigureDoneWellFormed =>
        FlagsAndMasks(Graph) = FlagsAndMasks(reconfigure(FreshGraph, prop))

\* the stale state the claim rules out: after switching from 'fuel models' to
\* 'fuel parameters' fSurfaceFuelBedModel is still active
C3_StaleFuelModel ==
    /\ ReconfigureDoneWellFormed
    /\ boolean(prop, "surfaceConfFuelParms")
    /\ "fSurfaceFuelBedModel" \in active
    /\ "fSurfaceFuelBedModel" \notin reconfigure(FreshGraph, prop).active

-----------------------------------------------------------------------------
(* Claim C4 *)

\* C4: every call of reconfigure() runs the eleven module procedures once each in
\* the order Documentation, Surface, Crown, Size, Contain, Spot, Scorch,
\* Mortality, Ignition, Weather, Safety, whatever the configuration: the calls
\* made so far are always a prefix of that sequence, and the whole of it when
\* reconfigure() returns.
C4_FixedOrder ==
    LET order == << "Documentation", "Surface", "Crown", "Size", "Contain", "Spot",
                    "Scorch", "Mortality", "Ignition", "Weather", "Safety" >>
    IN  /\ Len(calls) <= Len(order)
        /\ calls = SubSeq(order, 1, Len(calls))
        /\ (pc = 0 /\ nReconfigs > 0) => calls = order
        /\ pc > 0 => Len(calls) = pc - 1

\* a second reconfigure() has returned under a configuration with no module
\* switched on: all eleven procedures were still called
C4_Witness ==
    /\ pc = 0 /\ nReconfigs = 2
    /\ prop \cap ModuleFlags = {}
    /\ Len(calls) = 11
    /\ calls[2] = "Surface" /\ calls[11] = "Safety"

-----------------------------------------------------------------------------
(* Claim C5 *)

-----------------------------------------------------------------------------
(* Claim C6 *)

\* the choices of the fuel group by priority; the three two-fuel-model choices
\* share one branch of the else-if chain
FuelLevels ==
    << {"surfaceConfFuelModels"}, {"surfaceConfFuelParms"}, TwoFuelChoices,
       {"surfaceConfFuelPalmettoGallberry"}, {"surfaceConfFuelAspen"} >>

\* configuration p with only its highest-priority true fuel choice left true
HighestPriorityOnly(p) ==
    IF p \cap FuelChoices = {} THEN p
    ELSE LET top == CHOOSE i \in 1..Len(FuelLevels) :
                      /\ p \cap FuelLevels[i] # {}
                      /\ \A j \in 1..(i - 1) : p \cap FuelLevels[j] = {}
         IN  (p \ FuelChoices) \cup (p \cap FuelLevels[top])

\* reconfigureSurfaceModule is about to run, Surface is on and more than one
\* priority level of the fuel group has a true choice
SurfaceCalledWithSeveralFuelChoices ==
    /\ pc > 0 /\ ModuleOrder[pc] = "Surface"
    /\ boolean(prop, "surfaceModuleActive")
    /\ HighestPriorityOnly(prop) # prop

\* C6 as stated: when several choices of the fuel group are true,
\* reconfigureSurfaceModule leaves the graph (flags, masks and values) exactly as
\* it does when only the highest-priority true choice is true.
C6_AsStated ==
    [][ SurfaceCalledWithSeveralFuelChoices =>
          Graph' = reconfigureSurfaceModule(Graph, HighestPriorityOnly(prop)) ]_vars

\* 'fuel models' and Palmetto-Gallberry are both true: the fuel models branch was
\* taken, yet the load transfer fraction was made a constant as for
\* Palmetto-Gallberry, which the fuel models choice alone does not do
C6_LowerChoiceActs ==
    /\ nReconfigs = 1 /\ Len(calls) = 2 /\ calls[2] = "Surface"
    /\ prop \cap FuelChoices = {"surfaceConfFuelModels", "surfaceConfFuelPalmettoGallberry"}
    /\ boolean(prop, "surfaceModuleActive")
    /\ "fSurfaceFuelBedModel" \in active
    /\ "vSurfaceFuelLoadTransferFraction" \in isConstant
    /\ "vSurfaceFuelLoadTransferFraction"
          \notin reconfigureSurfaceModule(reconfigureDocumentation(FreshGraph, prop),
                                          HighestPriorityOnly(prop)).isConstant

-----------------------------------------------------------------------------
(* Claim C7 *)

\* C7: whenever reconfigure() has returned with the Surface module active and a
\* two-fuel-model choice true, none of the 23 per-model intermediate variables
\* is a user output, whatever the Calc flags are.
C7_NoPerModelOutputs ==
    (pc = 0 /\ nReconfigs >= 1 /\ boolean(prop, "surfaceModuleActive")
        /\ prop \cap TwoFuelChoices # {})
    => isUserOutput \cap PerModelVars = {}

\* the harmonic mean choice with every Calc flag true: the per-model variables
\* are not outputs although the other Surface outputs are
C7_Witness ==
    /\ pc = 0 /\ nReconfigs = 1 /\ boolean(prop, "surfaceModuleActive")
    /\ boolean(prop, "surfaceConfFuelHarmonicMean")
    /\ CalcFlags \subseteq prop
    /\ Cardinality(PerModelVars) = 23
    /\ isUserOutput \cap PerModelVars = {}
    /\ "vSurfaceFireReactionInt" \in isUserOutput

-----------------------------------------------------------------------------
(* Claims C8 to C10: the combined outputs of FuelBedWeighted *)

\* FuelBedWeighted has returned
BlendDone == bw.stage = "done"

\* one coverage exceeds 0.999
OneModelDominates ==
    RGt(bw.cov[1], Real(999, 1000)) \/ RGt(bw.cov[2], Real(999, 1000))

\* the arrays of the combined outputs other than the two spread rates
NonSpreadArrays ==
    { "rxi", "mxd", "waf", "wmf", "ewsh", "ewsv", "wsl", "flw", "hua", "flih", "fliv",
      "flh", "flv" }

\* Claim C8: when the coverage of one model exceeds 0.999, every combined
\* output other than the spread rates (reaction intensity, direction of maximum
\* spread, wind adjustment factor, midflame wind speed, effective wind at head
\* and vector, wind speed limit, wind limit flag, length-to-width ratio, heat
\* per unit area, fireline intensity and flame length at head and vector, fuel
\* bed depth) is the value captured for that model in its own pass, whatever
\* the other model is; with coverage (1, 0) it is that of the primary model.
C8_DominantModelValues ==
    (BlendDone /\ OneModelDominates) =>
        LET d == IF RGt(bw.cov[1], Real(999, 1000)) THEN 1 ELSE 2
        IN  /\ \A a \in NonSpreadArrays :
                 /\ nativeValue[ArrayVar[a]] = bw.cap[a][d]
                 /\ ArrayVar[a] \in PassOutputs(prop) =>
                        nativeValue[ArrayVar[a]] = NodeValue(bw.fm[d], ArrayVar[a])
            /\ activeItem["vSurfaceFireWindSpeedFlag"] = bw.cap.wsf[d]
            /\ nativeValue["vSurfaceFuelBedDepth"] = Depth(bw.fm[d])
            /\ bw.cov = <<One, Zero>> => d = 1

\* the secondary model dominates and the two models' captured values differ
C8_Witness ==
    /\ BlendDone
    /\ bw.cov = <<Real(1, 2000), Real(1999, 2000)>>
    /\ \A a \in NonSpreadArrays \ {"waf", "wmf"} : bw.cap[a][1] # bw.cap[a][2]
    /\ bw.cap.wsf[1] # bw.cap.wsf[2]
    /\ nativeValue["vSurfaceFireReactionInt"] = bw.cap.rxi[2]

\* Claim C9: the combined head and vector spread rates are the result of the
\* selected weighting method applied to the two models' captured rates and the
\* coverages, also when one coverage exceeds 0.999: the dominance branch leaves
\* the two spread rate variables as the weighting stored them.
C9_SpreadRatesFromMethod ==
    (bw.stage \in {"outputs", "done"} /\ Cardinality(prop \cap TwoFuelChoices) = 1) =>
        \A a \in {"rosh", "rosv"} :
            LET r == bw.cap[a]
                c == bw.cov
                x == nativeValue[ArrayVar[a]]
            IN  /\ "surfaceConfFuelAreaWeighted" \in prop =>
                       x = RAdd(RMul(c[1], r[1]), RMul(c[2], r[2]))
                /\ "surfaceConfFuelHarmonicMean" \in prop =>
                       x = IF RGt(bw.cap.rosh[1], Real(1, 1000000))
                              /\ RGt(bw.cap.rosh[2], Real(1, 1000000))
                           THEN RDiv(One, RAdd(RDiv(c[1], r[1]), RDiv(c[2], r[2])))
                           ELSE Zero
                /\ "surfaceConfFuel2Dimensional" \in prop =>
                       x = bw.expected[IF a = "rosh" THEN 1 ELSE 2]

\* one model dominates, and the combined head spread rate is neither model's
C9_Witness ==
    /\ BlendDone /\ OneModelDominates
    /\ "surfaceConfFuelHarmonicMean" \in prop
    /\ "surfaceConfFuelAreaWeighted" \notin prop
    /\ nativeValue["vSurfaceFireSpreadAtHead"] \notin {bw.cap.rosh[1], bw.cap.rosh[2], Zero}

\* x is the larger (the smaller) of a and b
IsLargerOf(x, a, b)  == x \in {a, b} /\ ~RGt(a, x) /\ ~RGt(b, x)
IsSmallerOf(x, a, b) == x \in {a, b} /\ ~RGt(x, a) /\ ~RGt(x, b)

\* Claim C10: when neither coverage exceeds 0.999, reaction intensity, heat per
\* unit area, fireline intensity and flame length (head and vector) are the
\* larger of the two captured values; the wind speed limit is the smaller; the
\* wind limit flag is the OR of the two captured flags; direction of maximum
\* spread, wind adjustment factor, midflame wind speed, effective wind (head
\* and vector) and length-to-width ratio are the primary model's captured
\* values; the fuel bed depth is the larger of the two depths.
C10_RuleValues ==
    (BlendDone /\ ~OneModelDominates) =>
        /\ \A a \in {"rxi", "hua", "flih", "fliv", "flh", "flv"} :
             IsLargerOf(nativeValue[ArrayVar[a]], bw.cap[a][1], bw.cap[a][2])
        /\ IsSmallerOf(nativeValue["vSurfaceFireWindSpeedLimit"],
                       bw.cap.wsl[1], bw.cap.wsl[2])
        /\ (activeItem["vSurfaceFireWindSpeedFlag"] = 1) =
             (bw.cap.wsf[1] = 1 \/ bw.cap.wsf[2] = 1)
        /\ activeItem["vSurfaceFireWindSpeedFlag"] \in {0, 1}
        /\ \A a \in {"mxd", "waf", "wmf", "ewsh", "ewsv", "flw"} :
             nativeValue[ArrayVar[a]] = bw.cap[a][1]
        /\ IsLargerOf(nativeValue["vSurfaceFuelBedDepth"],
                      Depth(bw.fm[1]), Depth(bw.fm[2]))

\* the primary model covers exactly 0.999; the secondary has the larger
\* reaction intensity and depth and the smaller wind speed limit, and only one
\* of the flags is set
C10_Witness ==
    /\ BlendDone
    /\ bw.cov[1] = Real(999, 1000)
    /\ RGt(bw.cap.rxi[2], bw.cap.rxi[1])
    /\ RGt(Depth(bw.fm[2]), Depth(bw.fm[1]))
    /\ RGt(bw.cap.wsl[1], bw.cap.wsl[2])
    /\ bw.cap.wsf[1] # bw.cap.wsf[2]
    /\ nativeValue["vSurfaceFireReactionInt"] = bw.cap.rxi[2]

-----------------------------------------------------------------------------
(* Claims C11 to C14: the weighted spread rates of FuelBedWeighted *)

\* the weighted spread rates have been stored
SpreadStored == bw.stage \in {"outputs", "done"}

\* the harmonic mean is the weighting method taken
HarmonicMode ==
    "surfaceConfFuelHarmonicMean" \in prop /\ "surfaceConfFuelAreaWeighted" \notin prop

\* Claim C11: in harmonic mean mode the combined head and vector spread rates
\* are 0 whenever either model's head rate is not greater than 0.000001;
\* otherwise the combined head rate h is 1 / (cov0/rosh0 + cov1/rosh1), that is
\* h * (cov0*rosh1 + cov1*rosh0) = rosh0*rosh1.
C11_HarmonicGuard ==
    (SpreadStored /\ HarmonicMode) =>
        LET r == bw.cap.rosh
            c == bw.cov
            h == nativeValue["vSurfaceFireSpreadAtHead"]
        IN  IF ~RGt(r[1], Real(1, 1000000)) \/ ~RGt(r[2], Real(1, 1000000))
            THEN /\ h = Zero
                 /\ nativeValue["vSurfaceFireSpreadAtVector"] = Zero
            ELSE /\ h[2] # 0
                 /\ RMul(h, RAdd(RMul(c[1], r[2]), RMul(c[2], r[1]))) = RMul(r[1], r[2])

\* head rates [0, 5] with coverage [0.5, 0.5] give 0
C11_Witness ==
    /\ bw.stage = "done" /\ HarmonicMode
    /\ bw.cap.rosh = <<Zero, Real(5, 1)>>
    /\ bw.cov = <<Real(1, 2), Real(1, 2)>>
    /\ nativeValue["vSurfaceFireSpreadAtHead"] = Zero

\* Claim C12: no division of the harmonic mean has a denominator at or below
\* 0.000001: for the vector rate as for the head rate, a model rate not greater
\* than 0.000001 makes the combined rate 0 instead of being divided by.
C12_AsStated ==
    (SpreadStored /\ HarmonicMode) =>
        \A a \in {"rosh", "rosv"} :
            (~RGt(bw.cap[a][1], Real(1, 1000000)) \/ ~RGt(bw.cap[a][2], Real(1, 1000000)))
                => nativeValue[ArrayVar[a]] = Zero

\* both head rates pass the test, the primary model's vector rate is 0 and its
\* coverage is 0: 0/0 is computed and the combined vector rate is not a number
C12_VectorRateNotANumber ==
    /\ bw.stage = "done" /\ HarmonicMode
    /\ RGt(bw.cap.rosh[1], Real(1, 1000000)) /\ RGt(bw.cap.rosh[2], Real(1, 1000000))
    /\ bw.cap.rosv[1] = Zero
    /\ bw.cov[1] = Zero
    /\ nativeValue["vSurfaceFireSpreadAtVector"] = NaN

\* Claim C13: with the area weighted flag true the combined head rate is
\* cov0*rosh0 + cov1*rosh1 and the combined vector rate cov0*rosv0 + cov1*rosv1,
\* where cov0 is the entered coverage and cov1 = 1 - cov0, whatever the captured
\* rates and the coverage in [0, 1] are, and also when the harmonic mean or the
\* two-dimensional flag is true as well.
C13_AreaWeighted ==
    (SpreadStored /\ "surfaceConfFuelAreaWeighted" \in prop) =>
        /\ bw.cov[1] = nativeValue["vSurfaceFuelBedCoverage1"]
        /\ RAdd(bw.cov[1], bw.cov[2]) = One
        /\ \A a \in {"rosh", "rosv"} :
             nativeValue[ArrayVar[a]] =
                 RAdd(RMul(bw.cov[1], bw.cap[a][1]), RMul(bw.cov[2], bw.cap[a][2]))

\* head rates [10, 20] with coverage [0.3, 0.7] give 17, with all three
\* weighting flags true
C13_Witness ==
    /\ bw.stage = "done"
    /\ TwoFuelChoices \subseteq prop
    /\ bw.cap.rosh = <<Real(10, 1), Real(20, 1)>>
    /\ bw.cov = <<Real(3, 10), Real(7, 10)>>
    /\ nativeValue["vSurfaceFireSpreadAtHead"] = Real(17, 1)

\* Claim C14: FuelBedWeighted runs the pass of model 0, the pass of model 1,
\* then the blend, then is done; every per-model value the blend uses was
\* captured in that model's own pass; and the blend reads no equation tree
\* variable whose current value was left by a pass of the loop.
C14_AsStated ==
    (bw.stage \notin {"none", "ready"}) =>
        /\ \E n \in 0..4 :
             /\ Len(bw.steps) = n
             /\ \A j \in 1..n :
                  bw.steps[j] \in
                      (CASE j = 1 -> {<<"ForEachModel", 0>>}
                         [] j = 2 -> {<<"ForEachModel", 1>>}
                         [] j = 3 -> {<<"Spread">>}
                         [] j = 4 -> {<<"Dominant">>, <<"Rules">>})
        /\ SpreadStored =>
             /\ \A a \in Arrays, j \in 1..2 :
                  ArrayVar[a] \in PassOutputs(prop) =>
                      bw.cap[a][j] = NodeValue(bw.fm[j], ArrayVar[a])
             /\ bw.reads \cap PassOutputs(prop) = {}

\* the two-dimensional method with coverage (1, 0): the length-to-width ratio
\* given to FBL_SurfaceFireExpectedSpreadRate is the one the pass of the
\* secondary model left, not the one captured for the primary model
C14_RatioOfSecondaryModel ==
    /\ bw.stage = "done"
    /\ "surfaceConfFuel2Dimensional" \in prop
    /\ bw.cov = <<One, Zero>>
    /\ bw.lbRatio = bw.cap.flw[2]
    /\ bw.lbRatio # bw.cap.flw[1]
    /\ nativeValue["vSurfaceFireLengthToWidth"] = bw.cap.flw[1]

-----------------------------------------------------------------------------
(* Claims C15 and C16: the containment outcome *)

\* a containment function has run and stored its outputs
ContainRan == sim.ran # "none"

\* Claim C15: after ContainFF or ContainFFSingle, when the simulator ended
\* Contained (status 3) vContainStatus is Contained (0) and vContainSize is the
\* simulator's final size; for every other terminal status vContainSize is -1
\* and vContainStatus is Withdrawn (1) if the final fireline length is greater
\* than 0 and Escaped (2) otherwise.
C15_ContainOutcome ==
    ContainRan =>
        IF sim.m_status = 3
        THEN /\ activeItem["vContainStatus"] = 0
             /\ nativeValue["vContainSize"] = sim.m_finalSize
        ELSE /\ nativeValue["vContainSize"] = Real(-1, 1)
             /\ activeItem["vContainStatus"] = IF RGt(sim.m_finalLine, Zero) THEN 1 ELSE 2

\* resources exhausted after fireline was built: Withdrawn, size -1
C15_Witness ==
    /\ sim.ran = "ContainFF"
    /\ sim.m_status = 5 /\ sim.m_finalLine = Real(40, 1) /\ sim.m_finalSize = Real(12, 1)
    /\ activeItem["vContainStatus"] = 1
    /\ nativeValue["vContainSize"] = Real(-1, 1)
    /\ nativeValue["vContainLine"] = Real(40, 1)

\* Claim C16, as stated: the outcome stored in vContainStatus is the lookup
\* table's entry for the simulator's terminal status, for every terminal
\* status and every final fireline length.
C16_AsStated ==
    ContainRan => activeItem["vContainStatus"] = Status[sim.m_status + 1]

\* Claim C16, amended: the stored outcome is the table's entry when that entry
\* is Contained; when the entry is Withdrawn or Escaped the outcome is decided
\* by the fireline alone, Withdrawn if the final fireline length is greater than
\* 0 and Escaped otherwise, so it is the table's entry only for Overrun with
\* fireline built and for the other statuses with none built.
C16_TableEntryUnlessNotContained ==
    ContainRan =>
        LET entry == Status[sim.m_status + 1]
            built == RGt(sim.m_finalLine, Zero)
            out == activeItem["vContainStatus"]
        IN  /\ entry = 0 => out = 0
            /\ entry # 0 => out = IF built THEN 1 ELSE 2
            /\ (out = entry) <=> \/ sim.m_status = 3
                                 \/ sim.m_status = 4 /\ built
                                 \/ sim.m_status \notin {3, 4} /\ ~built

\* resources overrun before any fireline was built: Escaped, where the table
\* has Withdrawn
C16_Witness ==
    /\ sim.ran = "ContainFFSingle"
    /\ sim.m_status = 4 /\ sim.m_finalLine = Zero
    /\ Status[sim.m_status + 1] = 1
    /\ activeItem["vContainStatus"] = 2

-----------------------------------------------------------------------------
(* Claims C19 and C20: MapScale and SiteUpslopeDirFromNorth *)

\* MapScale has run on the entered map fraction
MapScaleRan == "vMapScale" \in DOMAIN nativeValue

\* Claim C19: MapScale sets vMapScale to 0 whenever vMapFraction is below the
\* small-number threshold, mapFraction = 0 included, and to 63360 / mapFraction
\* otherwise (scale * mapFraction = 63360); no division by a value below the
\* threshold happens, so the stored scale is a finite number.
C19_MapScaleGuard ==
    MapScaleRan =>
        LET denom == nativeValue["vMapFraction"]
            scale == nativeValue["vMapScale"]
        IN  /\ scale[2] # 0
            /\ RLt(denom, SMIDGEN) => scale = Zero
            /\ ~RLt(denom, SMIDGEN) => RMul(scale, denom) = Real(63360, 1)

\* a positive map fraction below the threshold gives scale 0
C19_Witness ==
    /\ MapScaleRan
    /\ nativeValue["vMapFraction"] = Real(1, 20000)
    /\ nativeValue["vMapScale"] = Zero

\* SiteUpslopeDirFromNorth has run on the entered aspect
UpslopeRan == "vSiteUpslopeDirFromNorth" \in DOMAIN nativeValue

\* a is in [0, 360)
InCircle(a) == ~RLt(a, Zero) /\ RLt(a, Real(360, 1))

\* Claim C20: SiteUpslopeDirFromNorth stores aspect - 180 when aspect >= 180
\* and aspect + 180 otherwise; for every aspect in [0, 360) the result is in
\* [0, 360) and the function applied to its own result gives the aspect back.
C20_UpslopeTransform ==
    UpslopeRan =>
        LET aspect == nativeValue["vSiteAspectDirFromNorth"]
            upslope == nativeValue["vSiteUpslopeDirFromNorth"]
            again == SiteUpslopeDirFromNorth(
                        update(Graph, "vSiteAspectDirFromNorth", upslope))
        IN  /\ ~RLt(aspect, Real(180, 1)) => RAdd(upslope, Real(180, 1)) = aspect
            /\ RLt(aspect, Real(180, 1)) => RSub(upslope, Real(180, 1)) = aspect
            /\ InCircle(aspect) =>
                  /\ InCircle(upslope)
                  /\ again.nativeValue["vSiteUpslopeDirFromNorth"] = aspect

\* aspect 200 gives upslope direction 20
C20_Witness ==
    /\ UpslopeRan
    /\ nativeValue["vSiteAspectDirFromNorth"] = Real(200, 1)
    /\ nativeValue["vSiteUpslopeDirFromNorth"] = Real(20, 1)

-----------------------------------------------------------------------------
(* Claims C17 and C18: state left by sequences of reconfigure() calls *)

\* reconfigure() has returned
ReconfigureDone == pc = 0 /\ nReconfigs >= 1

\* first half of C17: reconfigure() with Surface active and wind speed entered
\* at midflame height leaves vWindAdjFactor a constant of value 1.0 and
\* vWindAdjMethod a constant
C17_MidflameForcesConstant ==
    (/\ ReconfigureDone
     /\ boolean(prop, "surfaceModuleActive")
     /\ boolean(prop, "surfaceConfWindSpeedAtMidflame"))
        => /\ "vWindAdjFactor" \in isConstant
           /\ nativeValue["vWindAdjFactor"] = One
           /\ "vWindAdjMethod" \in isConstant

\* second half of C17: whatever reconfigure() calls came before, vWindAdjFactor
\* is a constant only if the last configuration enters wind at midflame height
C17_ConstantOnlyIfMidflame ==
    (ReconfigureDone /\ "vWindAdjFactor" \in isConstant)
        => boolean(prop, "surfaceConfWindSpeedAtMidflame")

\* Claim C17, as stated: after reconfigure() with the Surface module active and
\* the midflame wind choice true, vWindAdjFactor is constant with value 1.0 and
\* vWindAdjMethod is constant; and after any sequence of reconfigure() calls
\* vWindAdjFactor is constant only if the last configuration's wind choice is
\* midflame height.
C17_AsStated == C17_MidflameForcesConstant /\ C17_ConstantOnlyIfMidflame

\* the wind choice was changed from midflame height to another one and
\* vWindAdjFactor is still a constant of value 1.0, which one reconfigure() of
\* a fresh graph with the same configuration does not give
C17_StaleConstant ==
    /\ ReconfigureDone
    /\ boolean(prop, "surfaceModuleActive")
    /\ prop \cap WindChoices = {"surfaceConfWindSpeedAt20Ft"}
    /\ "vWindAdjFactor" \in isConstant
    /\ nativeValue["vWindAdjFactor"] = One
    /\ "vWindAdjFactor" \notin reconfigure(FreshGraph, prop).isConstant

\* Claim C18, as stated: after any sequence of configuration changes, each
\* followed by reconfigure(), with the Surface module active in the last
\* configuration and exactly one fuel choice true, showInitFromFuelModelButton()
\* is true if that choice is 'fuel parameters' and false if it is any other.
C18_AsStated ==
    (/\ ReconfigureDone
     /\ boolean(prop, "surfaceModuleActive")
     /\ Cardinality(prop \cap FuelChoices) = 1)
        => (showInitFromFuelModelButton(Graph) <=> boolean(prop, "surfaceConfFuelParms"))

\* 'fuel parameters' is the one true fuel choice after 'fuel models' was, and
\* the button is not shown because fSurfaceFuelBedModel is still active
C18_ButtonHiddenForFuelParms ==
    /\ ReconfigureDone
    /\ boolean(prop, "surfaceModuleActive")
    /\ prop \cap FuelChoices = {"surfaceConfFuelParms"}
    /\ ~showInitFromFuelModelButton(Graph)
    /\ "fSurfaceFuelBedModel" \in active
    /\ showInitFromFuelModelButton(reconfigure(FreshGraph, prop))

-----------------------------------------------------------------------------
(* Claim C21: WindDirFromUpslope *)

\* WindDirFromUpslope has run on the entered wind direction
WindDirRan ==
    /\ "fWindDirFromUpslope" \in active
    /\ "vWindDirFromNorth" \in DOMAIN nativeValue
    /\ "vSiteUpslopeDirFromNorth" \in DOMAIN nativeValue
    /\ "vWindDirFromUpslope" \in DOMAIN nativeValue

\* the wind vector of a source direction: source - 180, plus 360 if negative
Turned(a) ==
    LET b == RSub(a, Real(180, 1)) IN IF RLt(b, Zero) THEN RAdd(b, Real(360, 1)) ELSE b

\* a less b, plus 360 if negative
Less(a, b) ==
    LET c == RSub(a, b) IN IF RLt(c, Zero) THEN RAdd(c, Real(360, 1)) ELSE c

\* Claim C21, as stated: for a source wind direction in [0, 360] and an upslope
\* direction in [0, 360), WindDirFromUpslope stores the wind vector (source -
\* 180, plus 360 if negative) less the upslope direction (plus 360 if negative),
\* snapped to exactly 0 when it is within 0.5 degrees of 0 on either side of
\* the wrap-around, and the stored result lies in [0, 360).
C21_AsStated ==
    WindDirRan =>
        LET wd == nativeValue["vWindDirFromNorth"]
            sd == nativeValue["vSiteUpslopeDirFromNorth"]
            dd == Less(Turned(wd), sd)
            out == nativeValue["vWindDirFromUpslope"]
        IN  (~RLt(wd, Zero) /\ ~RGt(wd, Real(360, 1)) /\ InCircle(sd)) =>
                /\ InCircle(out)
                /\ out = IF RLt(dd, Real(1, 2)) \/ RGt(dd, Real(719, 2))
                         THEN Zero ELSE dd

\* the part of C21 that holds: the result is in [0, 360), and is snapped to 0
\* from above the wrap-around
C21_SnappedFromAbove ==
    WindDirRan =>
        LET dd == Less(Turned(nativeValue["vWindDirFromNorth"]),
                       nativeValue["vSiteUpslopeDirFromNorth"])
            out == nativeValue["vWindDirFromUpslope"]
        IN  InCircle(out) /\ out = IF RLt(dd, Real(1, 2)) THEN Zero ELSE dd

\* source 179.75 (vector 359.75) and upslope 0: a quarter of a degree below
\* the wrap-around, stored as 359.75
C21_NotSnappedFromBelow ==
    /\ WindDirRan
    /\ nativeValue["vWindDirFromNorth"] = Real(719, 4)
    /\ nativeValue["vSiteUpslopeDirFromNorth"] = Zero
    /\ nativeValue["vWindDirFromUpslope"] = Real(1439, 4)

-----------------------------------------------------------------------------
(* Claim C22: the wind limit switch FireSpreadAtHead passes on *)

\* Claim C22: FireSpreadAtHead passes 'apply wind limit' = false to the spread
\* rate formula whenever the Aspen fuel flag is true, whatever
\* surfaceConfWindLimitApplied is, and the value of surfaceConfWindLimitApplied
\* otherwise.
C22_WindLimitArgument ==
    fbl.called =>
        /\ boolean(prop, "surfaceConfFuelAspen") => ~fbl.applyWindLimit
        /\ ~boolean(prop, "surfaceConfFuelAspen") =>
              (fbl.applyWindLimit <=> boolean(prop, "surfaceConfWindLimitApplied"))

\* aspen fuel with the wind limit configured as applied: the formula is told
\* not to apply it
C22_Witness ==
    /\ fbl.called
    /\ boolean(prop, "surfaceConfFuelAspen")
    /\ boolean(prop, "surfaceConfWindLimitApplied")
    /\ ~fbl.applyWindLimit
    /\ "vSurfaceFireSpreadAtHead" \in DOMAIN nativeValue

-----------------------------------------------------------------------------
(* Claims C23 and C30: the load transfer of FuelBedIntermediates *)

\* FuelBedIntermediates has run on the particle arrays
IntermediatesRan == "vSurfaceFuelLoadDead" \in DOMAIN nativeValue

\* the transfer was applied: an equation is set and the fraction exceeds 0.00001
TransferApplied ==
    /\ activeItem["vSurfaceFuelLoadTransferEq"] # 0
    /\ RGt(nativeValue["vSurfaceFuelLoadTransferFraction"], Real(1, 100000))

\* Claim C23: FuelBedIntermediates moves load from the live herb particle (3)
\* to the dead herb particle (5) only when the transfer equation index is not 0
\* and the transfer fraction is greater than 0.00001; then dead herb load =
\* fraction * live herb load and the live herb load is reduced by that amount;
\* otherwise both are written as read.  The dead fraction is 0 when dead + live
\* load is below the small-number threshold and dead / (dead + live) otherwise,
\* and the live fraction is 1 - dead fraction.
C23_LoadTransfer ==
    IntermediatesRan =>
        LET liveHerb == nativeValue[FuelLoad[4]]
            deadHerb == nativeValue[FuelLoad[6]]
            fraction == nativeValue["vSurfaceFuelLoadTransferFraction"]
            dead == nativeValue["vSurfaceFuelLoadDead"]
            total == RAdd(dead, nativeValue["vSurfaceFuelLoadLive"])
            deadFraction == nativeValue["vSurfaceFuelBedDeadFraction"]
        IN  /\ TransferApplied =>
                /\ nativeValue["vSurfaceFuelLoadDeadHerb"] = RMul(fraction, liveHerb)
                /\ RAdd(nativeValue["vSurfaceFuelLoadUndeadHerb"],
                        RMul(fraction, liveHerb)) = liveHerb
            /\ ~TransferApplied =>
                /\ nativeValue["vSurfaceFuelLoadDeadHerb"] = deadHerb
                /\ nativeValue["vSurfaceFuelLoadUndeadHerb"] = liveHerb
            /\ RLt(total, SMIDGEN) => deadFraction = Zero
            /\ ~RLt(total, SMIDGEN) =>
                  deadFraction[2] # 0 /\ RMul(deadFraction, total) = dead
            /\ RAdd(nativeValue["vSurfaceFuelBedLiveFraction"], deadFraction) = One

\* half of a live herb load of 0.3 is moved
C23_Witness ==
    /\ IntermediatesRan /\ TransferApplied
    /\ nativeValue["vSurfaceFuelLoadTransferFraction"] = Real(1, 2)
    /\ nativeValue[FuelLoad[4]] = Real(3, 10)
    /\ nativeValue["vSurfaceFuelLoadDeadHerb"] = Real(3, 20)
    /\ nativeValue["vSurfaceFuelLoadUndeadHerb"] = Real(3, 20)

\* the sum of the eight particle loads in the store
RECURSIVE ParticleLoads(_)
ParticleLoads(i) ==
    IF i > MaxParts THEN Zero ELSE RAdd(nativeValue[FuelLoad[i]], ParticleLoads(i + 1))

\* Claim C30: the load transfer conserves load: for particle loads that are
\* not negative and a transfer fraction in [0, 1], the written dead load +
\* live load equals the sum of the eight particle loads read, the written dead
\* herb + undead herb load equals the live herb load read whenever the
\* transfer is applied, and the written live load is not negative.
C30_LoadConserved ==
    (/\ IntermediatesRan
     /\ \A i \in 1..MaxParts : ~RLt(nativeValue[FuelLoad[i]], Zero)
     /\ ~RLt(nativeValue["vSurfaceFuelLoadTransferFraction"], Zero)
     /\ ~RGt(nativeValue["vSurfaceFuelLoadTransferFraction"], One))
        => /\ RAdd(nativeValue["vSurfaceFuelLoadDead"], nativeValue["vSurfaceFuelLoadLive"])
                = ParticleLoads(1)
           /\ TransferApplied =>
                 RAdd(nativeValue["vSurfaceFuelLoadDeadHerb"],
                      nativeValue["vSurfaceFuelLoadUndeadHerb"]) = nativeValue[FuelLoad[4]]
           /\ ~RLt(nativeValue["vSurfaceFuelLoadLive"], Zero)

\* the whole live herb load, the only live load, is moved: live load 0
C30_Witness ==
    /\ IntermediatesRan /\ TransferApplied
    /\ nativeValue["vSurfaceFuelLoadTransferFraction"] = One
    /\ nativeValue[FuelLoad[4]] = Real(3, 10)
    /\ nativeValue[FuelLoad[5]] = Zero
    /\ nativeValue["vSurfaceFuelLoadLive"] = Zero
    /\ nativeValue["vSurfaceFuelLoadDead"] = ParticleLoads(1)

-----------------------------------------------------------------------------
(* Claim C24 *)

\* reconfigureSurfaceModule() has just returned with Surface active, under a
\* well-formed configuration whose fuel choice is a two-fuel-model choice
SurfaceReturnedTwoFuels ==
    /\ pc > 0 /\ ModuleOrder[pc] = "Crown"
    /\ boolean(prop, "surfaceModuleActive")
    /\ WellFormed(prop)
    /\ prop \cap TwoFuelChoices # {}

\* Claim C24 as stated: after reconfigureSurfaceModule() with Surface active
\* and a two-fuel-model choice as the one true fuel choice, every node that
\* FuelBedWeighted calls internally is inactive, whatever the load transfer,
\* moisture, wind speed and spread direction choices are.
C24_AsStated == SurfaceReturnedTwoFuels => active \cap WeightedInternal = {}

\* the internal nodes a later option block of reconfigureSurfaceModule() activates
ReactivatedInternal ==
    { "fSurfaceFuelLoadTransferFraction", "fSurfaceFuelMoisLifeClass",
      "fSurfaceFuelMoisScenarioModel", "fWindAdjFactor", "fWindSpeedAt20Ft",
      "fWindSpeedAtMidflame" }

\* the other internal nodes stay inactive
C24_OthersStayInactive ==
    SurfaceReturnedTwoFuels => active \cap (WeightedInternal \ ReactivatedInternal) = {}

\* load transfer calculated, moisture by life category and 20-ft wind with a
\* two-fuel-model choice: three internal nodes are active again
C24_InternalNodesReactivated ==
    /\ SurfaceReturnedTwoFuels
    /\ boolean(prop, "surfaceConfLoadTransferCalc")
    /\ boolean(prop, "surfaceConfMoisLifeCat")
    /\ boolean(prop, "surfaceConfWindSpeedAt20Ft")
    /\ {"fSurfaceFuelLoadTransferFraction", "fSurfaceFuelMoisLifeClass",
        "fWindSpeedAtMidflame"} \subseteq active
    /\ "fSurfaceFuelBedWeighted" \in active

-----------------------------------------------------------------------------
(* Claim C25 *)

\* Claim C25: in every state reachable from a freshly constructed graph by any
\* sequence of reconfigure() calls, fTreeCrownBaseHt (reads vTreeCrownRatio)
\* and fTreeCrownRatio (reads vTreeCrownBaseHt) are not both active.
C25_NoCrownCycle == ~({"fTreeCrownBaseHt", "fTreeCrownRatio"} \subseteq active)

\* Mortality and Crown are on and reconfigure() has returned: the crown ratio
\* function is active, the crown base height function is not
C25_Witness ==
    /\ pc = 0 /\ nReconfigs >= 1
    /\ boolean(prop, "mortalityModuleActive") /\ boolean(prop, "crownModuleActive")
    /\ "fTreeCrownRatio" \in active
    /\ "fTreeCrownBaseHt" \notin active

-----------------------------------------------------------------------------
(* Claim C26 *)

\* Surface is off, the wind choice is one of the two 10-m choices and no
\* other, and Crown, Spot or Scorch (with scorch height requested) is on
NeedsOwnWindAt20Ft ==
    /\ ~boolean(prop, "surfaceModuleActive")
    /\ prop \cap WindChoices # {}
    /\ prop \cap WindChoices
          \subseteq {"surfaceConfWindSpeedAt10M", "surfaceConfWindSpeedAt10MCalc"}
    /\ \/ boolean(prop, "crownModuleActive")
       \/ boolean(prop, "spotModuleActive")
       \/ boolean(prop, "scorchModuleActive") /\ boolean(prop, "scorchCalcScorchHt")

\* Claim C26: when Surface is inactive, the wind choice is one of the two 10-m
\* choices and at least one of Crown, Spot or Scorch (with scorch height
\* requested) is active, fWindSpeedAt20Ft is active after a full reconfigure(),
\* and no module procedure of the call returns with it inactive after an
\* earlier one returned with it active.
C26_WindAt20FtDerived ==
    /\ [](pc = 0 /\ nReconfigs >= 1 /\ NeedsOwnWindAt20Ft => "fWindSpeedAt20Ft" \in active)
    /\ [][pc > 0 /\ NeedsOwnWindAt20Ft /\ "fWindSpeedAt20Ft" \in active
             => "fWindSpeedAt20Ft" \in active']_vars

\* Crown, Spot and Scorch on without Surface under the 10-m calculated
\* choice: Crown activated the function, Scorch set it inactive and active again
C26_Witness ==
    /\ pc = 0 /\ nReconfigs >= 1 /\ NeedsOwnWindAt20Ft
    /\ boolean(prop, "surfaceConfWindSpeedAt10MCalc")
    /\ boolean(prop, "crownModuleActive") /\ boolean(prop, "spotModuleActive")
    /\ boolean(prop, "scorchModuleActive") /\ boolean(prop, "scorchCalcScorchHt")
    /\ "fWindSpeedAt20Ft" \in active

-----------------------------------------------------------------------------
(* Claim C27 *)

\* node n was called in pass j - 1 of the loop
Ran(n, j) == \E x \in 1..Len(bw.called[j]) : bw.called[j][x] = n

\* the place of node n among the calls of pass j - 1
Place(n, j) == CHOOSE x \in 1..Len(bw.called[j]) : bw.called[j][x] = n

\* Claim C27: in each pass of FuelBedWeighted, WindAdjFactor runs iff the
\* wind choice is 10-m calculated or 20-ft calculated, WindSpeedAt20Ft iff it
\* is 10-m or 10-m calculated, WindSpeedAtMidflame iff it is not midflame
\* height, and FireVectorBeta iff the spread direction choice is not the
\* direction of maximum spread, vSurfaceFireVectorBeta being set to 0 when it
\* is; the conditions are the same in both passes, and WindAdjFactor runs
\* before WindSpeedAtMidflame.
C27_ConditionalNodes ==
    bw.stage \notin {"none", "ready"} =>
        /\ \A j \in 1..Len(bw.called) :
            /\ Ran("WindAdjFactor", j)
                  <=> (boolean(prop, "surfaceConfWindSpeedAt10MCalc")
                       \/ boolean(prop, "surfaceConfWindSpeedAt20FtCalc"))
            /\ Ran("WindSpeedAt20Ft", j)
                  <=> (boolean(prop, "surfaceConfWindSpeedAt10M")
                       \/ boolean(prop, "surfaceConfWindSpeedAt10MCalc"))
            /\ Ran("WindSpeedAtMidflame", j)
                  <=> ~boolean(prop, "surfaceConfWindSpeedAtMidflame")
            /\ Ran("FireVectorBeta", j) <=> ~boolean(prop, "surfaceConfSpreadDirMax")
            /\ (Ran("WindAdjFactor", j) /\ Ran("WindSpeedAtMidflame", j))
                  => Place("WindAdjFactor", j) < Place("WindSpeedAtMidflame", j)
        /\ (Len(bw.called) >= 1 /\ boolean(prop, "surfaceConfSpreadDirMax"))
              => nativeValue["vSurfaceFireVectorBeta"] = Zero
        /\ (Len(bw.called) >= 1 /\ ~boolean(prop, "surfaceConfSpreadDirMax"))
              => nativeValue["vSurfaceFireVectorBeta"] # Zero

\* both passes made under the 10-m calculated wind and an entered spread
\* direction: all four conditional nodes ran in each
C27_Witness ==
    /\ bw.stage = "done" /\ Len(bw.called) = 2
    /\ boolean(prop, "surfaceConfWindSpeedAt10MCalc")
    /\ boolean(prop, "surfaceConfSpreadDirInput")
    /\ \A j \in 1..2 :
          /\ Ran("WindAdjFactor", j) /\ Ran("WindSpeedAt20Ft", j)
          /\ Ran("WindSpeedAtMidflame", j) /\ Ran("FireVectorBeta", j)

\* both passes made under the midflame wind and the direction of maximum
\* spread: none of the four ran and the vector angle is 0
C27_NoneRan ==
    /\ bw.stage = "done" /\ Len(bw.called) = 2
    /\ boolean(prop, "surfaceConfWindSpeedAtMidflame")
    /\ boolean(prop, "surfaceConfSpreadDirMax")
    /\ \A j \in 1..2 :
          /\ ~Ran("WindAdjFactor", j) /\ ~Ran("WindSpeedAt20Ft", j)
          /\ ~Ran("WindSpeedAtMidflame", j) /\ ~Ran("FireVectorBeta", j)
    /\ nativeValue["vSurfaceFireVectorBeta"] = Zero

-----------------------------------------------------------------------------
(* Claim C28 *)

\* FuelBedWeighted has returned and WindAdjFactor ran in its passes
BlendDoneWithWindAdjFactor ==
    /\ bw.stage = "done" /\ Len(bw.called) = 2
    /\ Ran("WindAdjFactor", 1) /\ Ran("WindAdjFactor", 2)

\* the model whose captured wind adjustment factor the blend stores: the
\* dominant model, or model 0 when no model dominates
FactorModel == IF OneModelDominates THEN DominantModel(bw.cov) ELSE 0

\* Claim C28 as stated: after FuelBedWeighted, whenever the stored
\* vWindAdjFactor is model k's captured factor (k the dominant model, or model
\* 0 when none dominates), vWindAdjMethod and vTreeCanopyCrownFraction in the
\* store are the values WindAdjFactor produced in model k's pass.
C28_AsStated ==
    (BlendDoneWithWindAdjFactor
        /\ nativeValue["vWindAdjFactor"] = bw.cap.waf[FactorModel + 1])
    => /\ activeItem["vWindAdjMethod"] = NodeItem(bw.fm[FactorModel + 1], "vWindAdjMethod")
       /\ nativeValue["vTreeCanopyCrownFraction"]
             = NodeValue(bw.fm[FactorModel + 1], "vTreeCanopyCrownFraction")

\* what the code does: the method and the crown fraction are never captured,
\* the store keeps those of the last pass, the secondary model's
C28_MethodOfLastPass ==
    BlendDoneWithWindAdjFactor
    => /\ activeItem["vWindAdjMethod"] = NodeItem(bw.fm[2], "vWindAdjMethod")
       /\ nativeValue["vTreeCanopyCrownFraction"]
             = NodeValue(bw.fm[2], "vTreeCanopyCrownFraction")

\* no model dominates: the stored factor is the primary model's, the stored
\* method and crown fraction are the secondary model's and differ from the
\* primary model's
C28_FactorAndMethodOfDifferentModels ==
    /\ BlendDoneWithWindAdjFactor /\ ~OneModelDominates
    /\ nativeValue["vWindAdjFactor"] = bw.cap.waf[1]
    /\ bw.cap.waf[1] = NodeValue(bw.fm[1], "vWindAdjFactor")
    /\ activeItem["vWindAdjMethod"] = NodeItem(bw.fm[2], "vWindAdjMethod")
    /\ activeItem["vWindAdjMethod"] # NodeItem(bw.fm[1], "vWindAdjMethod")
    /\ nativeValue["vTreeCanopyCrownFraction"]
          # NodeValue(bw.fm[1], "vTreeCanopyCrownFraction")

-----------------------------------------------------------------------------
(* Claim C29 *)

\* the function that writes each Safety output
SafetyWriter ==
    [ vSafetyZoneRadius |-> "fSafetyZoneRadius", vSafetyZoneSepDist |-> "fSafetyZoneSepDist",
      vSafetyZoneSize |-> "fSafetyZoneRadius" ]

\* Claim C29: in every state reachable by any sequence of reconfigure() calls,
\* fSafetyZoneRadius (which reads vSafetyZoneSepDist) is active only if
\* fSafetyZoneSepDist is active; and after a reconfigure() with the Safety
\* module active, each of the three Safety outputs that is a user output has
\* the function that writes it active.
C29_SafetyClosed ==
    /\ "fSafetyZoneRadius" \in active => "fSafetyZoneSepDist" \in active
    /\ (pc = 0 /\ nReconfigs >= 1 /\ boolean(prop, "safetyModuleActive"))
          => \A v \in DOMAIN SafetyWriter :
                v \in isUserOutput => SafetyWriter[v] \in active

\* only the zone size is an output: the radius function that writes it and
\* the separation distance function it reads are both active
C29_Witness ==
    /\ pc = 0 /\ nReconfigs >= 1 /\ boolean(prop, "safetyModuleActive")
    /\ isUserOutput \cap DOMAIN SafetyWriter = {"vSafetyZoneSize"}
    /\ {"fSafetyZoneRadius", "fSafetyZoneSepDist"} \subseteq active

\* only the separation distance is an output, on a graph where no earlier
\* configuration asked for more: the radius function stays inactive
C29_SepDistAlone ==
    /\ pc = 0 /\ nReconfigs = 1 /\ boolean(prop, "safetyModuleActive")
    /\ isUserOutput \cap DOMAIN SafetyWriter = {"vSafetyZoneSepDist"}
    /\ "fSafetyZoneSepDist" \in active /\ "fSafetyZoneRadius" \notin active

=============================================================================
